---- MODULE Spec2Model ----
(***************************************************************************)
(* Model of the write flow controller of src/storage/txn/flow_controller.rs *)
(* (FlowController facade, FlowChecker worker loop, CFFlowChecker records   *)
(* and Smoother windows).                                                   *)
(*                                                                          *)
(* Numbers.  f64 speeds and flows are kept in whole bytes per second        *)
(* (truncated); +infinity is the value INFINITY, larger than every finite   *)
(* speed of the model.  The pending-bytes smoother holds log2 values; the   *)
(* engine reports 0 or a power of two, so a sample is an integer exponent   *)
(* or NEG_INF (log2 of 0), and a total may also be NAN.  Averages that the  *)
(* code compares with a count threshold are compared exactly (by cross      *)
(* multiplication).  Time is the coarse monotonic clock in whole seconds.   *)
(***************************************************************************)
EXTENDS Integers, Sequences, FiniteSets, TLC

\* ------------------------------------------------------------ constants
SPARE_TICK_DURATION == 1
SPARE_TICKS_THRESHOLD == 10
RATIO_SCALE_FACTOR == 10000000
MIN_THROTTLE_SPEED == 16384
MAX_THROTTLE_SPEED == 209715200
SMOOTHER_STALE_RECORD_THRESHOLD == 300
MIB == 1048576
\* +infinity of f64 (a speed limit that is not finite)
INFINITY == 2000000000
\* f64 values that are not integers of the model: log2(0) and inf - inf
NEG_INF == -1000000
NAN == -2000000
\* capacity of the command channel, mpsc::sync_channel(5)
CMD_CHANNEL_CAP == 5

\* window capacities of the Smoother fields
CAP_MEMTABLES == 20
CAP_NUM_L0 == 20
CAP_SHORT_PRODUCTION == 10
CAP_LONG_PRODUCTION == 60
CAP_CONSUMPTION == 3
CAP_PENDING == 60
CAP_WRITE_FLOW == 30

\* FlowControlConfig of the model (the thresholds of scenario S1)
memtables_threshold == 5
l0_files_threshold == 20
\* log2 of soft_pending_compaction_bytes_limit and of the hard limit
soft_log2 == 30
hard_log2 == 40

None == "none"
NoAnchor == -1

\* ------------------------------------------------------------ f64 helpers
IsNum(x) == x # NEG_INF /\ x # NAN /\ x # INFINITY

\* a + b on f64 (operands: numbers, -inf, +inf, NaN)
FAdd(a, b) ==
    IF a = NAN \/ b = NAN THEN NAN
    ELSE IF (a = NEG_INF /\ b = INFINITY) \/ (a = INFINITY /\ b = NEG_INF) THEN NAN
    ELSE IF a = NEG_INF \/ b = NEG_INF THEN NEG_INF
    ELSE IF a = INFINITY \/ b = INFINITY THEN INFINITY
    ELSE a + b

\* a - b on f64
FSub(a, b) ==
    IF a = NAN \/ b = NAN THEN NAN
    ELSE IF (a = NEG_INF /\ b = NEG_INF) \/ (a = INFINITY /\ b = INFINITY) THEN NAN
    ELSE IF a = NEG_INF \/ b = INFINITY THEN NEG_INF
    ELSE IF a = INFINITY \/ b = NEG_INF THEN INFINITY
    ELSE a - b

\* a < b on f64: false when either side is NaN
FLt(a, b) ==
    IF a = NAN \/ b = NAN THEN FALSE
    ELSE IF a = b THEN FALSE
    ELSE IF a = NEG_INF \/ b = INFINITY THEN TRUE
    ELSE IF b = NEG_INF \/ a = INFINITY THEN FALSE
    ELSE a < b

\* floor(a * b / c) for a, b >= 0 and c > 0, without leaving 32 bits
MulDiv(a, b, c) == (a \div c) * b + ((a % c) * b) \div c

\* ------------------------------------------------------------ Smoother
\* Smoother<T, CAP>: records (sample, observed_at) and the running total
EmptySmoother == [records |-> <<>>, total |-> 0]

PopFront(s) ==
    [records |-> Tail(s.records), total |-> FSub(s.total, Head(s.records).v)]

\* remove_stale_records that leaves one record at least
RECURSIVE remove_stale_records_to_one(_, _)
remove_stale_records_to_one(s, now_) ==
    IF Len(s.records) > 1 /\ now_ - Head(s.records).t > SMOOTHER_STALE_RECORD_THRESHOLD
    THEN remove_stale_records_to_one(PopFront(s), now_)
    ELSE s

RECURSIVE remove_stale_records(_, _)
remove_stale_records(s, now_) ==
    IF Len(s.records) > 2 /\ now_ - Head(s.records).t > SMOOTHER_STALE_RECORD_THRESHOLD
    THEN remove_stale_records(PopFront(s), now_)
    ELSE s

observe(s, cap, record, now_) ==
    LET s1 == IF Len(s.records) = cap THEN PopFront(s) ELSE s
        s2 == [records |-> Append(s1.records, [v |-> record, t |-> now_]),
               total |-> FAdd(s1.total, record)]
    IN remove_stale_records(s2, now_)

get_recent(s) ==
    IF s.records = <<>> THEN 0 ELSE s.records[Len(s.records)].v

\* get_avg as a flow in whole bytes per second
get_avg(s) ==
    IF s.records = <<>> THEN 0 ELSE s.total \div Len(s.records)

\* get_avg() > n / d and get_avg() >= n / d, exactly (n, d: naturals, d > 0)
avg_gt(s, n, d) ==
    IF s.records = <<>> THEN 0 > n ELSE s.total * d > n * Len(s.records)

avg_ge(s, n, d) ==
    IF s.records = <<>> THEN 0 >= n ELSE s.total * d >= n * Len(s.records)

get_max(s) ==
    IF s.records = <<>> THEN 0
    ELSE LET i == CHOOSE i \in DOMAIN s.records :
                    \A j \in DOMAIN s.records : s.records[j].v <= s.records[i].v
         IN s.records[i].v

\* the element at index k (from 0) of the samples sorted ascending
SortedAt(recs, k) ==
    LET i == CHOOSE i \in DOMAIN recs :
                /\ Cardinality({j \in DOMAIN recs : recs[j].v < recs[i].v}) <= k
                /\ k < Cardinality({j \in DOMAIN recs : recs[j].v <= recs[i].v})
    IN recs[i].v

\* get_percentile_90 with the index floor(len * 0.90)
get_percentile_90_of_len(s) ==
    IF s.records = <<>> THEN 0
    ELSE SortedAt(s.records, (Len(s.records) * 9) \div 10)

get_percentile_90(s) ==
    IF s.records = <<>> THEN 0
    ELSE SortedAt(s.records, ((Len(s.records) - 1) * 9) \div 10)

RECURSIVE SumRange(_, _, _)
SumRange(recs, lo, hi) ==
    IF lo > hi THEN 0 ELSE FAdd(recs[lo].v, SumRange(recs, lo + 1, hi))

\* the sums of the left half (i < len/2) and of the right half (len-i-1 < len/2)
LeftSum(s) == SumRange(s.records, 1, Len(s.records) \div 2)

RightSum(s) ==
    SumRange(s.records, Len(s.records) - (Len(s.records) \div 2) + 1, Len(s.records))

\* trend without the tolerance of 2
trend_no_tolerance(s) ==
    IF Len(s.records) <= 1 THEN "NoTrend"
    ELSE IF FLt(LeftSum(s), RightSum(s)) THEN "Increasing"
    ELSE IF FLt(RightSum(s), LeftSum(s)) THEN "Decreasing"
    ELSE "NoTrend"

trend(s) ==
    IF Len(s.records) <= 1 THEN "NoTrend"
    ELSE IF FLt(FAdd(LeftSum(s), 2), RightSum(s)) THEN "Increasing"
    ELSE IF FLt(FAdd(RightSum(s), 2), LeftSum(s)) THEN "Decreasing"
    ELSE "NoTrend"

\* slope() of a Smoother<u64, _>, as [panic, v].  `right - left` is a u64
\* subtraction: when right < left it wraps (to about 2^64: a slope larger than
\* every flow of the model, INFINITY) in a build without overflow checks and
\* panics in a build with them.
slope(s, overflow_checks) ==
    IF Len(s.records) <= 1 THEN [panic |-> FALSE, v |-> 0]
    ELSE LET half == Len(s.records) \div 2
             elapsed == s.records[Len(s.records)].t - s.records[1].t
         IN IF RightSum(s) < LeftSum(s)
            THEN [panic |-> overflow_checks, v |-> INFINITY]
            ELSE IF elapsed = 0
                 THEN [panic |-> FALSE,
                       v |-> IF RightSum(s) = LeftSum(s) THEN NAN ELSE INFINITY]
                 ELSE [panic |-> FALSE,
                       v |-> (2 * (RightSum(s) - LeftSum(s))) \div (half * elapsed)]

\* ------------------------------------------------------------ CFFlowChecker
CFS == {"default", "write"}

\* CFFlowChecker::default() at time now_
DefaultCFFlowChecker(now_) ==
    [last_num_memtables |-> EmptySmoother,
     memtable_debt |-> 0,
     init_speed |-> FALSE,
     last_num_l0_files |-> 0,
     last_num_l0_files_from_flush |-> 0,
     long_term_num_l0_files |-> EmptySmoother,
     last_flush_bytes_time |-> now_,
     last_flush_bytes |-> 0,
     short_term_l0_production_flow |-> EmptySmoother,
     long_term_l0_production_flow |-> EmptySmoother,
     last_l0_bytes |-> 0,
     last_l0_bytes_time |-> now_,
     short_term_l0_consumption_flow |-> EmptySmoother,
     long_term_pending_bytes |-> EmptySmoother,
     on_start_memtable |-> TRUE,
     on_start_l0_files |-> TRUE,
     on_start_pending_bytes |-> TRUE]

\* ------------------------------------------------------------ FlowChecker
\* FlowChecker::new: the worker-owned record; discard_ratio and limiter are the
\* objects shared with the facade.  panicked records that a handler panicked.
NewFlowChecker(now_) ==
    [cf_checkers |-> [cf \in CFS |-> DefaultCFFlowChecker(now_)],
     throttle_cf |-> None,
     l0_target_flow |-> 0,
     num_l0_for_last_update_target_flow |-> NoAnchor,
     discard_ratio |-> 0,
     limiter |-> [speed_limit |-> INFINITY, total_bytes_consumed |-> 0],
     write_flow_recorder |-> EmptySmoother,
     last_record_time |-> now_,
     panicked |-> FALSE]

SetSpeed(c, v) == [c EXCEPT !.limiter.speed_limit = v]

Panic(c) == [c EXCEPT !.panicked = TRUE]

\* reset_statistics without the reset of the limiter
reset_statistics_keeps_speed(c) == [c EXCEPT !.discard_ratio = 0]

reset_statistics(c) ==
    [c EXCEPT !.limiter.speed_limit = INFINITY, !.discard_ratio = 0]

\* the foreground write rate of the last tick, `as u64`
WriteRate(c, now_) ==
    IF now_ = c.last_record_time THEN INFINITY
    ELSE c.limiter.total_bytes_consumed \div (now_ - c.last_record_time)

update_statistics(c, now_) ==
    [c EXCEPT
        !.write_flow_recorder =
            IF c.limiter.total_bytes_consumed # 0
            THEN observe(@, CAP_WRITE_FLOW, WriteRate(c, now_), now_)
            ELSE @,
        !.last_record_time = now_,
        !.limiter.total_bytes_consumed = 0]

\* update_speed_limit without the floor at MIN_THROTTLE_SPEED
update_speed_limit_no_floor(c, throttle) ==
    IF FLt(MAX_THROTTLE_SPEED, throttle)
    THEN [c EXCEPT !.throttle_cf = None,
                   !.num_l0_for_last_update_target_flow = NoAnchor,
                   !.limiter.speed_limit = INFINITY]
    ELSE SetSpeed(c, throttle)

\* update_speed_limit that keeps the target-flow anchor on release
update_speed_limit_keeps_anchor(c, throttle) ==
    LET t1 == IF FLt(throttle, MIN_THROTTLE_SPEED) THEN MIN_THROTTLE_SPEED
              ELSE throttle
    IN IF FLt(MAX_THROTTLE_SPEED, t1)
       THEN [c EXCEPT !.throttle_cf = None, !.limiter.speed_limit = INFINITY]
       ELSE SetSpeed(c, t1)

update_speed_limit(c, throttle) ==
    LET t1 == IF FLt(throttle, MIN_THROTTLE_SPEED) THEN MIN_THROTTLE_SPEED
              ELSE throttle
    IN IF FLt(MAX_THROTTLE_SPEED, t1)
       THEN [c EXCEPT !.throttle_cf = None,
                      !.num_l0_for_last_update_target_flow = NoAnchor,
                      !.limiter.speed_limit = INFINITY]
       ELSE SetSpeed(c, t1)

\* InitialSpeed without the test for an empty record
InitialSpeed_of_zero(c) == get_percentile_90(c.write_flow_recorder)

\* the initial throttle speed: 90th percentile of the recorded write flow
InitialSpeed(c) ==
    LET x == get_percentile_90(c.write_flow_recorder)
    IN IF x = 0 THEN INFINITY ELSE x

\* the start-up check of a latch: TRUE when the handler must return because the
\* backlog is still the one inherited at start
StillOnStart(on_start, below_threshold, tr) ==
    on_start /\ ~(below_threshold \/ tr = "Increasing")

\* ------------------------------------------------------------ pending bytes
\* get_avg() < soft on the log2 window
PendingAvgBelowSoft(s) ==
    \/ s.total = NEG_INF
    \/ IsNum(s.total) /\ s.total < soft_log2 * Len(s.records)

\* NewDiscardRatio without the gentle entry: the first nonzero ratio is n / d
NewDiscardRatio_no_gentle_entry(old_ratio, s) ==
    LET n == s.total - soft_log2 * Len(s.records)
        d == (hard_log2 - soft_log2) * Len(s.records)
        q1 == (3 * old_ratio) \div 5
        r1 == (3 * old_ratio) % 5
        q2 == MulDiv(4000000, n, d)
        r2 == ((4000000 % d) * n) % d
    IN IF PendingAvgBelowSoft(s) THEN 0
       ELSE IF ~IsNum(s.total) THEN 0
       ELSE IF old_ratio # 0
            THEN q1 + q2 + (IF r1 * d + r2 * 5 >= 5 * d THEN 1 ELSE 0)
       ELSE MulDiv(RATIO_SCALE_FACTOR, n, d)

\* NewDiscardRatio that smooths the old ratio towards 0 below the soft limit
NewDiscardRatio_ema_below_soft(old_ratio, s) ==
    LET n == s.total - soft_log2 * Len(s.records)
        d == (hard_log2 - soft_log2) * Len(s.records)
        q1 == (3 * old_ratio) \div 5
        r1 == (3 * old_ratio) % 5
        q2 == MulDiv(4000000, n, d)
        r2 == ((4000000 % d) * n) % d
    IN IF PendingAvgBelowSoft(s) THEN q1
       ELSE IF ~IsNum(s.total) THEN 0
       ELSE IF old_ratio # 0
            THEN q1 + q2 + (IF r1 * d + r2 * 5 >= 5 * d THEN 1 ELSE 0)
       ELSE IF 100 * n > d THEN RATIO_SCALE_FACTOR \div 100
       ELSE MulDiv(RATIO_SCALE_FACTOR, n, d)

\* NewDiscardRatio that rounds the scaled ratio to the nearest integer
NewDiscardRatio_to_nearest(old_ratio, s) ==
    LET n == s.total - soft_log2 * Len(s.records)
        d == (hard_log2 - soft_log2) * Len(s.records)
        q1 == (3 * old_ratio) \div 5
        r1 == (3 * old_ratio) % 5
        q2 == MulDiv(4000000, n, d)
        r2 == ((4000000 % d) * n) % d
        f == r1 * d + r2 * 5
    IN IF PendingAvgBelowSoft(s) THEN 0
       ELSE IF ~IsNum(s.total) THEN 0
       ELSE IF old_ratio # 0
            THEN q1 + q2 + (IF 2 * f >= 15 * d THEN 2
                            ELSE IF 2 * f >= 5 * d THEN 1 ELSE 0)
       ELSE IF 100 * n > d THEN RATIO_SCALE_FACTOR \div 100
       ELSE MulDiv(RATIO_SCALE_FACTOR, n, d)
            + (IF 2 * (((RATIO_SCALE_FACTOR % d) * n) % d) >= d THEN 1 ELSE 0)

\* the ratio stored by on_pending_compaction_bytes_change: with
\* n / d = (avg - soft) / (hard - soft), floor((0.6 * old + 0.4 * n / d) * SCALE)
\* when old # 0, the gentle entry 0.01 when n / d > 0.01, else n / d.  A NaN
\* ratio casts to 0 (`as u32`).  The floor is taken of the exact rational; the
\* f64 product of the code can round to one unit (1e-7) below it.
NewDiscardRatio(old_ratio, s) ==
    LET n == s.total - soft_log2 * Len(s.records)
        d == (hard_log2 - soft_log2) * Len(s.records)
        q1 == (3 * old_ratio) \div 5
        r1 == (3 * old_ratio) % 5
        q2 == MulDiv(4000000, n, d)
        r2 == ((4000000 % d) * n) % d
    IN IF PendingAvgBelowSoft(s) THEN 0
       ELSE IF ~IsNum(s.total) THEN 0
       ELSE IF old_ratio # 0
            THEN q1 + q2 + (IF r1 * d + r2 * 5 >= 5 * d THEN 1 ELSE 0)
       ELSE IF 100 * n > d THEN RATIO_SCALE_FACTOR \div 100
       ELSE MulDiv(RATIO_SCALE_FACTOR, n, d)

\* the multi-CF guard: some CF's most recent sample is larger than num
SomeCfHasMore(c, field, num) ==
    \E other \in CFS : FLt(num, get_recent(c.cf_checkers[other][field]))

\* PendingDecide without the multi-CF guard
PendingDecide_unguarded(c, cf, num) ==
    [c EXCEPT !.discard_ratio =
        NewDiscardRatio(c.discard_ratio,
                        c.cf_checkers[cf].long_term_pending_bytes)]

\* on_pending_compaction_bytes_change past the start-up check: the multi-CF
\* guard and the store of the ratio computed from cf's window
PendingDecide(c, cf, num) ==
    IF SomeCfHasMore(c, "long_term_pending_bytes", num) THEN c
    ELSE [c EXCEPT !.discard_ratio =
              NewDiscardRatio(c.discard_ratio,
                              c.cf_checkers[cf].long_term_pending_bytes)]

\* on_pending_compaction_bytes_change without the return of the start-up check
on_pending_compaction_bytes_change_no_return(c, cf, num, now_) ==
    LET ck == c.cf_checkers[cf]
        lt == observe(ck.long_term_pending_bytes, CAP_PENDING, num, now_)
        c1 == [c EXCEPT !.cf_checkers[cf].long_term_pending_bytes = lt]
        c2 == [c1 EXCEPT !.cf_checkers[cf].on_start_pending_bytes = FALSE]
    IN IF StillOnStart(ck.on_start_pending_bytes, FLt(num, soft_log2), trend(lt))
       THEN PendingDecide(c1, cf, num)
       ELSE PendingDecide(c2, cf, num)

\* on_pending_compaction_bytes_change that clears the latch when it returns at
\* the start-up check
on_pending_compaction_bytes_change_clears_latch(c, cf, num, now_) ==
    LET ck == c.cf_checkers[cf]
        lt == observe(ck.long_term_pending_bytes, CAP_PENDING, num, now_)
        c1 == [c EXCEPT !.cf_checkers[cf].long_term_pending_bytes = lt]
        c2 == [c1 EXCEPT !.cf_checkers[cf].on_start_pending_bytes = FALSE]
    IN IF StillOnStart(ck.on_start_pending_bytes, FLt(num, soft_log2), trend(lt))
       THEN c2
       ELSE PendingDecide(c2, cf, num)

\* num: log2 of the engine's pending compaction bytes of cf (NEG_INF for 0)
on_pending_compaction_bytes_change(c, cf, num, now_) ==
    LET ck == c.cf_checkers[cf]
        lt == observe(ck.long_term_pending_bytes, CAP_PENDING, num, now_)
        c1 == [c EXCEPT !.cf_checkers[cf].long_term_pending_bytes = lt]
        c2 == [c1 EXCEPT !.cf_checkers[cf].on_start_pending_bytes = FALSE]
    IN IF StillOnStart(ck.on_start_pending_bytes, FLt(num, soft_log2), trend(lt))
       THEN c1
       ELSE PendingDecide(c2, cf, num)

\* ------------------------------------------------------------ memtables
on_memtable_decrs(c, cf, num_memtables, now_) ==
    LET ck == c.cf_checkers[cf]
        prev == get_recent(ck.last_num_memtables)
        lm == observe(ck.last_num_memtables, CAP_MEMTABLES, num_memtables, now_)
        c1 == [c EXCEPT !.cf_checkers[cf].last_num_memtables = lm]
        c2 == [c1 EXCEPT !.cf_checkers[cf].on_start_memtable = FALSE]
        speed == c.limiter.speed_limit
        is_throttled == speed # INFINITY
        should_throttle == avg_gt(lm, memtables_threshold, 1)
        recent == get_recent(lm)
    IN IF StillOnStart(ck.on_start_memtable, num_memtables < memtables_threshold,
                       trend(lm))
       THEN c1
       ELSE IF SomeCfHasMore(c2, "last_num_memtables", num_memtables)
       THEN c2
       ELSE IF ~is_throttled
       THEN IF should_throttle
            THEN update_speed_limit(
                     [c2 EXCEPT !.cf_checkers[cf].init_speed = TRUE],
                     InitialSpeed(c2))
            ELSE update_speed_limit(c2, INFINITY)
       ELSE IF ~should_throttle \/ recent < memtables_threshold
       THEN LET c3 == [c2 EXCEPT !.cf_checkers[cf].memtable_debt = 0]
            IN update_speed_limit(c3,
                   IF ck.init_speed THEN INFINITY
                   ELSE speed + c3.cf_checkers[cf].memtable_debt * MIB)
       ELSE IF recent > prev
       THEN update_speed_limit(
                [c2 EXCEPT !.cf_checkers[cf].memtable_debt = @ + 1], speed - MIB)
       ELSE IF recent < prev
       THEN update_speed_limit(
                [c2 EXCEPT !.cf_checkers[cf].memtable_debt = @ - 1], speed + MIB)
       ELSE update_speed_limit(c2, speed)

\* ------------------------------------------------------------ L0 files
\* the release test shared by tick_l0 and on_l0_decr: hold the speed
KeepOnRelease(ck, with_recent) ==
    \/ avg_ge(ck.long_term_num_l0_files, l0_files_threshold, 2)
    \/ with_recent /\ 2 * get_recent(ck.long_term_num_l0_files) >= l0_files_threshold
    \/ ck.last_num_l0_files_from_flush >= l0_files_threshold

\* TickUp with the factor of on_l0_decr
TickUp_by_limit_factor(speed) == MulDiv(speed, 26, 25)

\* speed * (1.0 + 5.0 * LIMIT_UP_PERCENT)
TickUp(speed) == MulDiv(speed, 6, 5)

\* LimitUp with the factor of the idle tick
LimitUp_by_tick_factor(speed) == MulDiv(speed, 6, 5)

\* speed * (1.0 + LIMIT_UP_PERCENT)
LimitUp(speed) == MulDiv(speed, 26, 25)

\* speed * (1.0 - LIMIT_DOWN_PERCENT)
LimitDown(speed) == MulDiv(speed, 49, 50)

\* tick_l0 that raises the speed of every throttled checker
tick_l0_always_up(c) ==
    IF c.limiter.speed_limit = INFINITY THEN c
    ELSE IF c.throttle_cf = None THEN Panic(c)
    ELSE update_speed_limit(c, TickUp(c.limiter.speed_limit))

tick_l0(c) ==
    IF c.limiter.speed_limit = INFINITY THEN c
    ELSE IF c.throttle_cf = None THEN Panic(c)
    ELSE LET ck == c.cf_checkers[c.throttle_cf]
             speed == c.limiter.speed_limit
         IN IF ck.last_num_l0_files <= l0_files_threshold
            THEN update_speed_limit(c,
                     IF KeepOnRelease(ck, TRUE) THEN speed ELSE TickUp(speed))
            ELSE c

\* the anti-flap test against the average of tc's window instead of its maximum
MayTakeOver_avg(c, tc, num_l0_files) ==
    num_l0_files > get_avg(c.cf_checkers[tc].long_term_num_l0_files) + 4

\* the anti-flap test of on_l0_decr: cf may replace throttle CF tc
MayTakeOver(c, tc, num_l0_files) ==
    num_l0_files > get_max(c.cf_checkers[tc].long_term_num_l0_files) + 4

\* the L0 test against the memtable threshold
ShouldThrottleL0_memtables(ck) == ck.last_num_l0_files > memtables_threshold

ShouldThrottleL0(ck) == ck.last_num_l0_files > l0_files_threshold

\* the initiation without the seed of the target-flow anchor
L0Init_no_anchor(c, cf) ==
    update_speed_limit(
        [c EXCEPT !.throttle_cf = cf,
                  !.l0_target_flow =
                      get_avg(c.cf_checkers[cf].short_term_l0_production_flow)],
        InitialSpeed(c))

\* on_l0_decr initiates throttling for cf
L0Init(c, cf) ==
    update_speed_limit(
        [c EXCEPT !.throttle_cf = cf,
                  !.num_l0_for_last_update_target_flow =
                      c.cf_checkers[cf].last_num_l0_files,
                  !.l0_target_flow =
                      get_avg(c.cf_checkers[cf].short_term_l0_production_flow)],
        InitialSpeed(c))

\* L0DecrDecide that refreshes the target flow without comparing it with the
\* consumption average
L0DecrDecide_refresh_any(c, cf) ==
    LET ck == c.cf_checkers[cf]
        speed == c.limiter.speed_limit
        is_throttled == speed # INFINITY
        should_throttle == ShouldThrottleL0(ck)
        anchor == c.num_l0_for_last_update_target_flow
        cons == get_avg(ck.short_term_l0_consumption_flow)
        prod == get_avg(ck.short_term_l0_production_flow)
    IN IF ~is_throttled /\ should_throttle
       THEN L0Init(c, cf)
       ELSE IF is_throttled /\ should_throttle
       THEN update_speed_limit(
                IF anchor # NoAnchor
                THEN IF ck.last_num_l0_files > anchor + 3
                     THEN [c EXCEPT !.l0_target_flow = cons,
                                    !.num_l0_for_last_update_target_flow =
                                        ck.last_num_l0_files]
                     ELSE c
                ELSE [c EXCEPT !.num_l0_for_last_update_target_flow =
                                   ck.last_num_l0_files,
                               !.l0_target_flow = prod],
                speed)
       ELSE IF is_throttled
       THEN IF KeepOnRelease(ck, FALSE)
            THEN update_speed_limit(c, speed)
            ELSE update_speed_limit(
                     IF anchor # NoAnchor /\ cons > c.l0_target_flow
                        /\ (cons + c.l0_target_flow) \div 2 > c.l0_target_flow
                     THEN [c EXCEPT !.l0_target_flow = (cons + c.l0_target_flow) \div 2]
                     ELSE c,
                     LimitUp(speed))
       ELSE update_speed_limit(c, INFINITY)

\* the decision of on_l0_decr once the start-up check and the arbitration passed
L0DecrDecide(c, cf) ==
    LET ck == c.cf_checkers[cf]
        speed == c.limiter.speed_limit
        is_throttled == speed # INFINITY
        should_throttle == ShouldThrottleL0(ck)
        anchor == c.num_l0_for_last_update_target_flow
        cons == get_avg(ck.short_term_l0_consumption_flow)
        prod == get_avg(ck.short_term_l0_production_flow)
    IN IF ~is_throttled /\ should_throttle
       THEN L0Init(c, cf)
       ELSE IF is_throttled /\ should_throttle
       THEN update_speed_limit(
                IF anchor # NoAnchor
                THEN IF ck.last_num_l0_files > anchor + 3 /\ c.l0_target_flow > cons
                     THEN [c EXCEPT !.l0_target_flow = cons,
                                    !.num_l0_for_last_update_target_flow =
                                        ck.last_num_l0_files]
                     ELSE c
                ELSE [c EXCEPT !.num_l0_for_last_update_target_flow =
                                   ck.last_num_l0_files,
                               !.l0_target_flow = prod],
                speed)
       ELSE IF is_throttled
       THEN IF KeepOnRelease(ck, FALSE)
            THEN update_speed_limit(c, speed)
            ELSE update_speed_limit(
                     IF anchor # NoAnchor /\ cons > c.l0_target_flow
                        /\ (cons + c.l0_target_flow) \div 2 > c.l0_target_flow
                     THEN [c EXCEPT !.l0_target_flow = (cons + c.l0_target_flow) \div 2]
                     ELSE c,
                     LimitUp(speed))
       ELSE update_speed_limit(c, INFINITY)

on_l0_decr(c, cf, l0_bytes, num_l0_files, now_) ==
    LET ck == c.cf_checkers[cf]
        lt == observe(ck.long_term_num_l0_files, CAP_NUM_L0, num_l0_files, now_)
        c1 == [c EXCEPT !.cf_checkers[cf].last_l0_bytes = @ + l0_bytes,
                        !.cf_checkers[cf].long_term_num_l0_files = lt,
                        !.cf_checkers[cf].last_num_l0_files = num_l0_files]
        c2 == [c1 EXCEPT !.cf_checkers[cf].on_start_l0_files = FALSE]
    IN IF StillOnStart(ck.on_start_l0_files, num_l0_files < l0_files_threshold,
                       trend(lt))
       THEN c1
       ELSE IF c2.throttle_cf # None /\ c2.throttle_cf # cf
       THEN IF MayTakeOver(c2, c2.throttle_cf, num_l0_files)
            THEN L0DecrDecide(
                     [c2 EXCEPT !.throttle_cf = cf,
                                !.num_l0_for_last_update_target_flow = num_l0_files,
                                !.l0_target_flow =
                                    get_avg(ck.short_term_l0_production_flow)],
                     cf)
            ELSE c2
       ELSE L0DecrDecide(c2, cf)

\* PidStep without the floor of u at 0
PidStep_no_floor(c, cf, sl) ==
    LET speed == c.limiter.speed_limit
        gap == c.l0_target_flow
               - get_avg(c.cf_checkers[cf].short_term_l0_production_flow)
        u == IF sl = INFINITY THEN NEG_INF
             ELSE IF sl = NAN THEN NAN
             ELSE (3 * (gap - 5 * sl)) \div 20
    IN IF u = NAN THEN NAN
       ELSE IF FLt(speed, u) THEN speed
       ELSE IF u = NEG_INF THEN 0 - speed
       ELSE u

\* u of the PID step, clamped to [0, speed]: PID_KP_FACTOR * (target
\* - short-term production avg + PID_KD_FACTOR * -slope)
PidStep(c, cf, sl) ==
    LET speed == c.limiter.speed_limit
        gap == c.l0_target_flow
               - get_avg(c.cf_checkers[cf].short_term_l0_production_flow)
        u == IF sl = INFINITY THEN NEG_INF
             ELSE IF sl = NAN THEN NAN
             ELSE (3 * (gap - 5 * sl)) \div 20
    IN IF u = NAN THEN NAN
       ELSE IF FLt(speed, u) THEN speed
       ELSE IF FLt(u, 0) THEN 0
       ELSE u

increase_speed_limit(c, cf, overflow_checks) ==
    LET sl == slope(c.cf_checkers[cf].short_term_l0_production_flow, overflow_checks)
    IN IF c.limiter.speed_limit = INFINITY
       THEN update_speed_limit([c EXCEPT !.throttle_cf = cf], InitialSpeed(c))
       ELSE IF sl.panic THEN Panic(c)
       ELSE update_speed_limit(c, FAdd(c.limiter.speed_limit, PidStep(c, cf, sl.v)))

decrease_speed_limit(c, cf) ==
    IF c.limiter.speed_limit = INFINITY
    THEN update_speed_limit([c EXCEPT !.throttle_cf = cf], InitialSpeed(c))
    ELSE update_speed_limit(c, LimitDown(c.limiter.speed_limit))

\* the flush flow and the L0 flow are taken once more than 5 s have passed
FlushWindowOver(ck, now_) == now_ - ck.last_flush_bytes_time > 5

\* the Down and Up tests of on_l0_incr against the target flow
FlowDown(c, cf) ==
    LET ck == c.cf_checkers[cf]
    IN /\ get_avg(ck.long_term_l0_production_flow) > c.l0_target_flow
       /\ get_recent(ck.short_term_l0_production_flow) > c.l0_target_flow

\* the Up test without the comparison of the write rate with the speed
FlowUp_any_rate(c, cf) ==
    LET ck == c.cf_checkers[cf]
    IN \/ get_avg(ck.short_term_l0_production_flow) < c.l0_target_flow
       \/ get_recent(ck.short_term_l0_production_flow) < c.l0_target_flow

FlowUp(c, cf) ==
    LET ck == c.cf_checkers[cf]
    IN /\ \/ get_avg(ck.short_term_l0_production_flow) < c.l0_target_flow
          \/ get_recent(ck.short_term_l0_production_flow) < c.l0_target_flow
       /\ FLt(IF c.limiter.speed_limit = INFINITY THEN INFINITY
              ELSE MulDiv(c.limiter.speed_limit, 19, 20),
              get_recent(c.write_flow_recorder))

\* on_l0_incr without the return for a CF that is not the throttle CF
on_l0_incr_any_cf(c, cf, flush_bytes, num_l0_files, now_, overflow_checks) ==
    LET ck == c.cf_checkers[cf]
        c1 == [c EXCEPT !.cf_checkers[cf].last_flush_bytes = @ + flush_bytes,
                        !.cf_checkers[cf].last_num_l0_files = num_l0_files,
                        !.cf_checkers[cf].last_num_l0_files_from_flush = num_l0_files]
        ck1 == c1.cf_checkers[cf]
        flush_flow == ck1.last_flush_bytes \div (now_ - ck1.last_flush_bytes_time)
        l0_flow == ck1.last_l0_bytes \div (now_ - ck1.last_l0_bytes_time)
        ck2 == [ck1 EXCEPT
                   !.short_term_l0_production_flow =
                       observe(@, CAP_SHORT_PRODUCTION, flush_flow, now_),
                   !.long_term_l0_production_flow =
                       observe(@, CAP_LONG_PRODUCTION, flush_flow, now_),
                   !.short_term_l0_consumption_flow =
                       IF ck1.last_l0_bytes # 0
                       THEN observe(@, CAP_CONSUMPTION, l0_flow, now_)
                       ELSE @,
                   !.last_l0_bytes_time =
                       IF ck1.last_l0_bytes # 0 THEN now_ ELSE @,
                   !.last_flush_bytes_time = now_,
                   !.last_l0_bytes = 0,
                   !.last_flush_bytes = 0]
        c2 == [c1 EXCEPT !.cf_checkers[cf] = ck2]
        c3 == [c2 EXCEPT !.cf_checkers[cf].on_start_l0_files = FALSE]
    IN IF ~FlushWindowOver(ck1, now_) THEN c1
       ELSE IF StillOnStart(ck.on_start_l0_files, num_l0_files < l0_files_threshold,
                            trend(ck2.long_term_num_l0_files))
       THEN c2
       ELSE IF c3.num_l0_for_last_update_target_flow = NoAnchor THEN c3
       ELSE IF FlowDown(c3, cf) THEN decrease_speed_limit(c3, cf)
       ELSE IF FlowUp(c3, cf) THEN increase_speed_limit(c3, cf, overflow_checks)
       ELSE c3

on_l0_incr(c, cf, flush_bytes, num_l0_files, now_, overflow_checks) ==
    LET ck == c.cf_checkers[cf]
        c1 == [c EXCEPT !.cf_checkers[cf].last_flush_bytes = @ + flush_bytes,
                        !.cf_checkers[cf].last_num_l0_files = num_l0_files,
                        !.cf_checkers[cf].last_num_l0_files_from_flush = num_l0_files]
        ck1 == c1.cf_checkers[cf]
        flush_flow == ck1.last_flush_bytes \div (now_ - ck1.last_flush_bytes_time)
        l0_flow == ck1.last_l0_bytes \div (now_ - ck1.last_l0_bytes_time)
        ck2 == [ck1 EXCEPT
                   !.short_term_l0_production_flow =
                       observe(@, CAP_SHORT_PRODUCTION, flush_flow, now_),
                   !.long_term_l0_production_flow =
                       observe(@, CAP_LONG_PRODUCTION, flush_flow, now_),
                   !.short_term_l0_consumption_flow =
                       IF ck1.last_l0_bytes # 0
                       THEN observe(@, CAP_CONSUMPTION, l0_flow, now_)
                       ELSE @,
                   !.last_l0_bytes_time =
                       IF ck1.last_l0_bytes # 0 THEN now_ ELSE @,
                   !.last_flush_bytes_time = now_,
                   !.last_l0_bytes = 0,
                   !.last_flush_bytes = 0]
        c2 == [c1 EXCEPT !.cf_checkers[cf] = ck2]
        c3 == [c2 EXCEPT !.cf_checkers[cf].on_start_l0_files = FALSE]
    IN IF ~FlushWindowOver(ck1, now_) THEN c1
       ELSE IF StillOnStart(ck.on_start_l0_files, num_l0_files < l0_files_threshold,
                            trend(ck2.long_term_num_l0_files))
       THEN c2
       ELSE IF c3.throttle_cf # None /\ c3.throttle_cf # cf THEN c3
       ELSE IF c3.num_l0_for_last_update_target_flow = NoAnchor THEN c3
       ELSE IF FlowDown(c3, cf) THEN decrease_speed_limit(c3, cf)
       ELSE IF FlowUp(c3, cf) THEN increase_speed_limit(c3, cf, overflow_checks)
       ELSE c3

\* ------------------------------------------------------------ environment
\* Bounds of the model: engine events, timeouts and facade calls per run.
MaxQuietEvents == 2
MaxQuietTicks == 7
MaxL0Events == 4
MaxIdleEvents == 3
MaxIdleTicks == 12
MaxMemEvents == 3
MaxMemTicks == 10
MaxPendingEvents == 5
MaxCmdEvents == 2
MaxCalls == 2
\* timeouts that let the recorder see the foreground writes
WarmUpTicks == 2
\* enable calls of a run without engine events
MaxEnableCalls == 6

\* The scripted engine and callers of a run: which events the engine sends (up
\* to max_events of them, none before events_from timeouts and none after
\* events_until timeouts) for which CFs, what
\* its metrics return, the bytes per second the callers write, how many enable
\* calls are made, and how long a disabled worker may wait for an event.
Scripts ==
    [quiet |->
        [kinds |-> {"L0", "L0Intra", "Flush", "Compaction"}, cfs |-> CFS,
         l0 |-> {19}, mem |-> {2}, pending |-> {NEG_INF, 20},
         flush |-> {6000000}, rates |-> {10000000},
         max_events |-> MaxQuietEvents, max_ticks |-> MaxQuietTicks,
         events_until |-> MaxQuietTicks,
         events_from |-> 0,
         max_calls |-> 0, gaps |-> {0}, disconnect |-> FALSE],
     l0 |->
        [kinds |-> {"L0"}, cfs |-> CFS,
         l0 |-> {3, 25, 30}, mem |-> {2}, pending |-> {NEG_INF},
         flush |-> {6000000}, rates |-> {1000, 10000000, 300000000},
         max_events |-> MaxL0Events, max_ticks |-> WarmUpTicks,
         events_until |-> WarmUpTicks,
         events_from |-> WarmUpTicks,
         max_calls |-> 0, gaps |-> {0}, disconnect |-> FALSE],
     idle |->
        [kinds |-> {"L0", "L0Intra", "Flush"}, cfs |-> {"default"},
         l0 |-> {3, 21}, mem |-> {2}, pending |-> {NEG_INF},
         flush |-> {6000000}, rates |-> {10000000},
         max_events |-> MaxIdleEvents, max_ticks |-> MaxIdleTicks,
         events_until |-> WarmUpTicks,
         events_from |-> 0,
         max_calls |-> 0, gaps |-> {0}, disconnect |-> FALSE],
     mem |->
        [kinds |-> {"Flush"}, cfs |-> CFS,
         l0 |-> {3}, mem |-> {2, 6, 9}, pending |-> {NEG_INF},
         flush |-> {6000000}, rates |-> {10000000},
         max_events |-> MaxMemEvents, max_ticks |-> MaxMemTicks,
         events_until |-> WarmUpTicks,
         events_from |-> 0,
         max_calls |-> 0, gaps |-> {0}, disconnect |-> FALSE],
     pending |->
        [kinds |-> {"Compaction"}, cfs |-> CFS,
         l0 |-> {3}, mem |-> {2}, pending |-> {NEG_INF, 35, 60},
         flush |-> {6000000}, rates |-> {0},
         max_events |-> MaxPendingEvents, max_ticks |-> 1,
         events_until |-> 1,
         events_from |-> 0,
         max_calls |-> 0, gaps |-> {0}, disconnect |-> FALSE],
     cmd |->
        [kinds |-> {"L0", "Compaction"}, cfs |-> {"default"},
         l0 |-> {3, 25}, mem |-> {2}, pending |-> {35, 60},
         flush |-> {6000000}, rates |-> {10000000},
         max_events |-> MaxCmdEvents, max_ticks |-> WarmUpTicks,
         events_until |-> WarmUpTicks,
         events_from |-> WarmUpTicks,
         max_calls |-> MaxCalls, gaps |-> {0, 301}, disconnect |-> TRUE],
     calls |->
        [kinds |-> {}, cfs |-> {"default"},
         l0 |-> {3}, mem |-> {2}, pending |-> {NEG_INF},
         flush |-> {6000000}, rates |-> {0},
         max_events |-> 0, max_ticks |-> 1,
         events_until |-> 0,
         events_from |-> 0,
         max_calls |-> MaxEnableCalls, gaps |-> {0}, disconnect |-> FALSE]]

L0Bytes == 4000000

VARIABLES
    checker,        \* the FlowChecker, with the shared limiter and discard ratio
                    \* (in SmootherSpec: the Smoother that observes)
    enabled_flag,   \* FlowController.enabled
    tx,             \* the messages in the command channel
    facade,         \* "alive", "joining" (drop waits for the worker), "dropped",
                    \* "panicked" (a send failed in enable), "faulted" (the
                    \* draw of should_drop panicked)
    pc,             \* the worker: "poll" (try_recv of a command), "recv" (receive
                    \* of an engine event), "done", "panicked"
    w_enabled,      \* the worker's local `enabled`
    spare_ticks,
    deadline,
    now,            \* the clock
    flow_open,      \* the engine still holds the sender of the event channel
    script,         \* the scripted engine of this run
    n_events,       \* engine events sent so far
    n_calls,        \* enable() calls so far
    write_rate,     \* bytes the callers write per second
    n_ticks,        \* timeouts of the event receive so far
    last            \* the worker's last step: [op, cf, num] and the speed limit,
                    \* throttle CF, anchor and discard ratio before it

vars == <<checker, enabled_flag, tx, facade, pc, w_enabled, spare_ticks, deadline,
          now, flow_open, script, n_events, n_calls, write_rate, n_ticks, last>>

S == Scripts[script]

speed_limit == checker.limiter.speed_limit
discard_ratio == checker.discard_ratio
throttle_cf == checker.throttle_cf

\* FlowController::new(config, engine, receiver) for config.enable = en, with the
\* worker thread spawned and about to run its first loop iteration
InitWith(names) ==
    /\ script \in names
    /\ write_rate \in Scripts[script].rates
    /\ \E en \in BOOLEAN :
        /\ enabled_flag = en
        /\ tx = <<IF en THEN "Enable" ELSE "Disable">>
    /\ checker = NewFlowChecker(0)
    /\ facade = "alive"
    /\ pc = "poll"
    /\ w_enabled = TRUE
    /\ spare_ticks = 0
    /\ deadline = 0
    /\ now = 0
    /\ flow_open = TRUE
    /\ n_events = 0
    /\ n_calls = 0
    /\ n_ticks = 0
    /\ last = [op |-> "new", cf |-> None, num |-> 0,
               pre_speed |-> INFINITY, pre_tcf |-> None,
               pre_anchor |-> NoAnchor, pre_ratio |-> 0]

Init == InitWith(DOMAIN Scripts)

Step(op, cf, num) ==
    [op |-> op, cf |-> cf, num |-> num,
     pre_speed |-> speed_limit, pre_tcf |-> throttle_cf,
     pre_anchor |-> checker.num_l0_for_last_update_target_flow,
     pre_ratio |-> discard_ratio]

\* ------------------------------------------------------------ facade
\* FlowController::enable(b): the send blocks while the channel is full and
\* fails (unwrap panics) once the worker has dropped the receiver
Enable(b) ==
    /\ facade = "alive"
    /\ n_calls < S.max_calls
    /\ n_calls' = n_calls + 1
    /\ enabled_flag' = b
    /\ IF pc \in {"done", "panicked"}
       THEN facade' = "panicked" /\ tx' = tx
       ELSE /\ Len(tx) < CMD_CHANNEL_CAP
            /\ tx' = Append(tx, IF b THEN "Enable" ELSE "Disable")
            /\ facade' = facade
    /\ UNCHANGED <<checker, pc, w_enabled, spare_ticks, deadline, now, flow_open,
                   script, n_events, write_rate, n_ticks, last>>

\* FlowController::consume(bytes): the limiter counts the bytes.  The callers
\* write steadily, write_rate bytes in every second after the worker's first
\* tick.
Consume(bytes) ==
    /\ facade = "alive"
    /\ deadline > 0
    /\ bytes > 0
    /\ checker.limiter.total_bytes_consumed = 0
    /\ checker' = [checker EXCEPT !.limiter.total_bytes_consumed = @ + bytes]
    /\ UNCHANGED <<enabled_flag, tx, facade, pc, w_enabled, spare_ticks, deadline,
                   now, flow_open, script, n_events, n_calls, write_rate, n_ticks,
                   last>>

\* FlowController::should_drop(): rng.gen_ratio(ratio, RATIO_SCALE_FACTOR) draws
\* a boolean and changes nothing; it panics in the caller when the numerator
\* is larger than the denominator
should_drop ==
    /\ facade = "alive"
    /\ facade' = IF discard_ratio > RATIO_SCALE_FACTOR THEN "faulted" ELSE facade
    /\ UNCHANGED <<checker, enabled_flag, tx, pc, w_enabled, spare_ticks, deadline,
                   now, flow_open, script, n_events, n_calls, write_rate, n_ticks,
                   last>>

\* Drop for FlowController, first half: send Close (an error is logged and drop
\* returns when the worker is gone)
DropSend ==
    /\ facade = "alive"
    /\ S.max_calls > 0
    /\ IF pc \in {"done", "panicked"}
       THEN facade' = "dropped" /\ tx' = tx
       ELSE /\ Len(tx) < CMD_CHANNEL_CAP
            /\ tx' = Append(tx, "Close")
            /\ facade' = "joining"
    /\ UNCHANGED <<checker, enabled_flag, pc, w_enabled, spare_ticks, deadline, now,
                   flow_open, script, n_events, n_calls, write_rate, n_ticks, last>>

\* Drop for FlowController, second half: join the worker
DropJoin ==
    /\ facade = "joining"
    /\ pc \in {"done", "panicked"}
    /\ facade' = "dropped"
    /\ UNCHANGED <<checker, enabled_flag, tx, pc, w_enabled, spare_ticks, deadline,
                   now, flow_open, script, n_events, n_calls, write_rate, n_ticks, last>>

\* the engine drops its sender of the event channel
EngineDisconnect ==
    /\ flow_open
    /\ S.disconnect
    /\ flow_open' = FALSE
    /\ UNCHANGED <<checker, enabled_flag, tx, facade, pc, w_enabled, spare_ticks,
                   deadline, now, script, n_events, n_calls, write_rate, n_ticks, last>>

\* ------------------------------------------------------------ worker loop
\* what the facade and the counters keep during a worker step
WorkerFrame == UNCHANGED <<enabled_flag, facade, flow_open, script, n_calls, write_rate>>

AfterHandler(c) == IF c.panicked THEN "panicked" ELSE "poll"

\* spare_ticks after an event of cf
SpareTicksAfterEvent(cf) == IF throttle_cf = cf THEN 0 ELSE spare_ticks

\* rx.try_recv() = Ok(Msg::Close): leave the loop
PollClose ==
    /\ pc = "poll" /\ tx # <<>> /\ Head(tx) = "Close"
    /\ tx' = Tail(tx)
    /\ pc' = "done"
    /\ last' = Step("Close", None, 0)
    /\ UNCHANGED <<checker, w_enabled, spare_ticks, deadline, now, n_events, n_ticks>>
    /\ WorkerFrame

\* rx.try_recv() = Ok(Msg::Disable)
PollDisable ==
    /\ pc = "poll" /\ tx # <<>> /\ Head(tx) = "Disable"
    /\ tx' = Tail(tx)
    /\ w_enabled' = FALSE
    /\ checker' = reset_statistics(checker)
    /\ pc' = "recv"
    /\ last' = Step("Disable", None, 0)
    /\ UNCHANGED <<spare_ticks, deadline, now, n_events, n_ticks>>
    /\ WorkerFrame

\* rx.try_recv() = Ok(Msg::Enable)
PollEnable ==
    /\ pc = "poll" /\ tx # <<>> /\ Head(tx) = "Enable"
    /\ tx' = Tail(tx)
    /\ w_enabled' = TRUE
    /\ pc' = "recv"
    /\ last' = Step("Enable", None, 0)
    /\ UNCHANGED <<checker, spare_ticks, deadline, now, n_events, n_ticks>>
    /\ WorkerFrame

\* rx.try_recv() = Err(_): no command
PollEmpty ==
    /\ pc = "poll" /\ tx = <<>>
    /\ pc' = "recv"
    /\ UNCHANGED <<checker, tx, w_enabled, spare_ticks, deadline, now, n_events,
                   n_ticks, last>>
    /\ WorkerFrame

\* the guard of the receive of an engine event of `kind` while enabled
CanRecv(kind, cf) ==
    /\ pc = "recv" /\ w_enabled /\ flow_open
    /\ n_events < S.max_events
    /\ S.events_from <= n_ticks /\ n_ticks <= S.events_until
    /\ kind \in S.kinds /\ cf \in S.cfs

\* what every enabled receive of an event does around its handler
Handled(op, cf, num, c) ==
    /\ checker' = c
    /\ pc' = AfterHandler(c)
    /\ spare_ticks' = SpareTicksAfterEvent(cf)
    /\ n_events' = n_events + 1
    /\ last' = Step(op, cf, num)
    /\ UNCHANGED <<tx, w_enabled, deadline, now, n_ticks>>
    /\ WorkerFrame

\* Ok(FlowInfo::L0(cf, l0_bytes)); the engine reports num_l0 files at level 0
RecvL0(cf, num_l0) ==
    /\ CanRecv("L0", cf)
    /\ Handled("L0", cf, num_l0, on_l0_decr(checker, cf, L0Bytes, num_l0, now))

\* Ok(FlowInfo::L0Intra(cf, diff_bytes))
RecvL0Intra(cf, diff_bytes, num_l0) ==
    /\ CanRecv("L0Intra", cf)
    /\ Handled("L0Intra", cf, num_l0,
               IF diff_bytes > 0
               THEN on_l0_decr(checker, cf, diff_bytes, num_l0, now)
               ELSE checker)

\* Ok(FlowInfo::Flush(cf, flush_bytes)): on_memtable_decrs, then on_l0_incr
FlushHandlers(c, cf, flush_bytes, num_mem, num_l0, overflow_checks) ==
    on_l0_incr(on_memtable_decrs(c, cf, num_mem, now), cf, flush_bytes, num_l0,
               now, overflow_checks)

RecvFlush(cf, flush_bytes, num_mem, num_l0, overflow_checks) ==
    /\ CanRecv("Flush", cf)
    /\ Handled("Flush", cf, num_l0,
               FlushHandlers(checker, cf, flush_bytes, num_mem, num_l0,
                             overflow_checks))

\* Ok(FlowInfo::Compaction(cf)); num is log2 of the pending bytes reported
RecvCompaction(cf, num) ==
    /\ CanRecv("Compaction", cf)
    /\ Handled("Compaction", cf, num,
               on_pending_compaction_bytes_change(checker, cf, num, now))

\* the checker after a timeout at time t with the tick counter at ticks
TimeoutHandlers(c, ticks, t) ==
    LET c1 == IF ticks = SPARE_TICKS_THRESHOLD THEN tick_l0(c) ELSE c
    IN IF c1.panicked THEN c1 ELSE update_statistics(c1, t)

\* Err(RecvTimeoutError::Timeout): no event before the deadline
TimeoutStep ==
    /\ pc = "recv" /\ w_enabled /\ flow_open
    /\ LET t == IF deadline > now THEN deadline ELSE now
           c == TimeoutHandlers(checker, spare_ticks + 1, t)
       IN /\ now' = t
          /\ checker' = c
          /\ pc' = AfterHandler(c)
          /\ spare_ticks' = IF spare_ticks + 1 = SPARE_TICKS_THRESHOLD THEN 0
                            ELSE spare_ticks + 1
          /\ deadline' = t + SPARE_TICK_DURATION
    /\ n_ticks' = n_ticks + 1
    /\ last' = Step("Timeout", None, 0)
    /\ UNCHANGED <<tx, w_enabled, n_events>>
    /\ WorkerFrame

\* a timeout of the run: at most max_ticks of them, each after the callers'
\* writes of that second
Timeout ==
    /\ n_ticks < S.max_ticks
    /\ write_rate > 0 /\ deadline > 0 /\ facade = "alive"
           => checker.limiter.total_bytes_consumed # 0
    /\ TimeoutStep

\* the event channel is disconnected: recv and recv_deadline return an error at
\* once (it is logged in enabled mode) and the loop goes on
Disconnected ==
    /\ pc = "recv" /\ ~flow_open
    /\ pc' = "poll"
    /\ last' = Step("Disconnected", None, 0)
    /\ UNCHANGED <<checker, tx, w_enabled, spare_ticks, deadline, now, n_events,
                   n_ticks>>
    /\ WorkerFrame

\* a disabled worker that handles the event it receives as a Compaction event
Drain_handles(gap) ==
    /\ pc = "recv" /\ ~w_enabled /\ flow_open
    /\ n_events < S.max_events
    /\ gap \in S.gaps
    /\ now' = now + gap
    /\ checker' = on_pending_compaction_bytes_change(checker, "default", 35, now')
    /\ pc' = "poll"
    /\ n_events' = n_events + 1
    /\ last' = Step("Drain", None, 0)
    /\ UNCHANGED <<tx, w_enabled, spare_ticks, deadline, n_ticks>>
    /\ WorkerFrame

\* disabled: flow_info_receiver.recv() blocks until the engine sends an event,
\* gap seconds later, and the event is dropped
Drain(gap) ==
    /\ pc = "recv" /\ ~w_enabled /\ flow_open
    /\ n_events < S.max_events
    /\ gap \in S.gaps
    /\ now' = now + gap
    /\ pc' = "poll"
    /\ n_events' = n_events + 1
    /\ last' = Step("Drain", None, 0)
    /\ UNCHANGED <<checker, tx, w_enabled, spare_ticks, deadline, n_ticks>>
    /\ WorkerFrame

Next ==
    \/ \E b \in BOOLEAN : Enable(b)
    \/ Consume(write_rate * SPARE_TICK_DURATION)
    \/ should_drop
    \/ DropSend
    \/ DropJoin
    \/ EngineDisconnect
    \/ PollClose
    \/ PollDisable
    \/ PollEnable
    \/ PollEmpty
    \/ \E cf \in CFS, n \in S.l0 : RecvL0(cf, n)
    \/ \E cf \in CFS, d \in {0, L0Bytes}, n \in S.l0 : RecvL0Intra(cf, d, n)
    \/ \E cf \in CFS, fb \in S.flush, m \in S.mem, n \in S.l0, oc \in BOOLEAN :
          RecvFlush(cf, fb, m, n, oc)
    \/ \E cf \in CFS, n \in S.pending : RecvCompaction(cf, n)
    \/ Timeout
    \/ Disconnected
    \/ \E gap \in S.gaps : Drain(gap)

Spec == Init /\ [][Next]_vars

\* ------------------------------------------------------------ properties
\* C1: at every time the limiter's speed limit is unlimited (+inf) or lies in
\* [MIN_THROTTLE_SPEED, MAX_THROTTLE_SPEED].
C1_SpeedClamp ==
    \/ speed_limit = INFINITY
    \/ MIN_THROTTLE_SPEED <= speed_limit /\ speed_limit <= MAX_THROTTLE_SPEED

\* an L0 event initiated throttling from a recorded write flow below the floor
C1_Witness ==
    /\ last.op = "L0" /\ last.pre_speed = INFINITY
    /\ speed_limit = MIN_THROTTLE_SPEED
    /\ get_percentile_90(checker.write_flow_recorder) < MIN_THROTTLE_SPEED

\* C2: the discard ratio stored by the pending-bytes handler stays within
\* [0, RATIO_SCALE_FACTOR], also when the pending bytes exceed the hard limit,
\* so that should_drop can draw with it.
C2_RatioInRange == 0 <= discard_ratio /\ discard_ratio <= RATIO_SCALE_FACTOR


\* a step the worker can take by itself: a command, an empty poll, the deadline
\* of the receive, the error of a disconnected channel
WorkerOwnStep ==
    PollClose \/ PollDisable \/ PollEnable \/ PollEmpty \/ TimeoutStep \/ Disconnected

\* C3: once drop has sent Close and waits in join, the worker has exited or can
\* go on by itself towards the Close, in enabled and in disabled mode, whether
\* or not an engine event arrives.
C3_CloseObserved ==
    facade = "joining" => pc \in {"done", "panicked"} \/ ENABLED WorkerOwnStep

\* C4: in the loop iteration that handles Disable the limiter is unlimited and
\* the discard ratio is 0, from a throttled state too.
C4_DisableReleases ==
    last.op = "Disable" => speed_limit = INFINITY /\ discard_ratio = 0

\* Disable was handled while the limiter was throttled
C4_Witness == last.op = "Disable" /\ last.pre_speed # INFINITY

\* C5: in the loop iteration that handles Disable the write-flow smoother is
\* empty.
C5_DisableClearsWriteFlow ==
    last.op = "Disable" => checker.write_flow_recorder.records = <<>>

\* the engine of the run reports every metric below its threshold
QuietEngine ==
    /\ \A n \in S.l0 : n < l0_files_threshold
    /\ \A m \in S.mem : m < memtables_threshold
    /\ \A p \in S.pending : FLt(p, soft_log2)

\* C6: while every CF reports memtables, L0 files and pending bytes below their
\* thresholds, the limiter stays unlimited and the discard ratio stays 0, after
\* any events and timeouts.
C6_QuietStaysUnlimited ==
    QuietEngine => speed_limit = INFINITY /\ discard_ratio = 0

\* a quiet engine has sent its events of a run with recorded foreground writes
C6_Witness ==
    /\ QuietEngine
    /\ n_events = S.max_events
    /\ last.op = "L0" /\ last.num = 19
    /\ checker.write_flow_recorder.records # <<>>

AllOnStartPending == \A cf \in CFS : checker.cf_checkers[cf].on_start_pending_bytes

\* C7: from a fresh controller, a Compaction event above the soft limit whose
\* window has no Increasing trend, after only such events, leaves the discard
\* ratio 0 (and the start-up latch set).
C7_StartupLatch ==
    [][(/\ pc = "recv" /\ last'.op = "Compaction" /\ n_events' = n_events + 1
        /\ AllOnStartPending
        /\ ~FLt(last'.num, soft_log2)
        /\ trend(checker'.cf_checkers[last'.cf].long_term_pending_bytes)
               # "Increasing")
       => discard_ratio' = 0 /\ AllOnStartPending']_vars

\* a falling backlog above the soft limit was reported twice and the latch holds
C7_Witness ==
    /\ last.op = "Compaction" /\ AllOnStartPending
    /\ last.num >= soft_log2
    /\ trend(checker.cf_checkers[last.cf].long_term_pending_bytes) = "Decreasing"

\* C8: a step that replaces throttle CF A by another CF B is an on_l0_decr for
\* B whose L0 count is larger than the maximum of A's long-term window + 4.
C8_TakeOverHysteresis ==
    (last.pre_tcf # None /\ throttle_cf # None /\ throttle_cf # last.pre_tcf)
    => /\ last.op \in {"L0", "L0Intra"}
       /\ last.cf = throttle_cf
       /\ last.num > get_max(checker.cf_checkers[last.pre_tcf].long_term_num_l0_files) + 4

\* the throttle CF was replaced by another CF
C8_Witness ==
    last.pre_tcf # None /\ throttle_cf # None /\ throttle_cf # last.pre_tcf

\* the step is an on_l0_decr for last'.cf, past the start-up check, with the
\* limiter unlimited, no other CF authoritative, the L0 count above the
\* threshold and a nonzero 90th-percentile write rate
L0InitiationStep ==
    /\ pc = "recv" /\ last'.op = "L0" /\ n_events' = n_events + 1
    /\ speed_limit = INFINITY
    /\ throttle_cf \in {None, last'.cf}
    /\ last'.num > l0_files_threshold
    /\ get_percentile_90(checker.write_flow_recorder) # 0
    /\ ~StillOnStart(checker.cf_checkers[last'.cf].on_start_l0_files,
                     last'.num < l0_files_threshold,
                     trend(checker'.cf_checkers[last'.cf].long_term_num_l0_files))

\* the target flow is seeded from the short-term production average of last'.cf
TargetSeeded ==
    checker'.l0_target_flow =
        get_avg(checker.cf_checkers[last'.cf].short_term_l0_production_flow)

Proposals ==
    {0, 1000, MIN_THROTTLE_SPEED, 10000000, MAX_THROTTLE_SPEED,
     MAX_THROTTLE_SPEED + 1, 300000000, INFINITY}

\* a checker with any throttle CF, anchor and speed limit
UpdateInit ==
    /\ \E tc \in CFS \cup {None}, anchor \in {NoAnchor, 21, 25},
          speed \in {INFINITY, MIN_THROTTLE_SPEED, 10000000} :
          checker = [NewFlowChecker(0) EXCEPT
                        !.throttle_cf = tc,
                        !.num_l0_for_last_update_target_flow = anchor,
                        !.limiter.speed_limit = speed]
    /\ script = "l0" /\ write_rate = 0
    /\ enabled_flag = TRUE /\ tx = <<>> /\ facade = "alive"
    /\ pc = "update" /\ w_enabled = TRUE
    /\ spare_ticks = 0 /\ deadline = 0 /\ now = 0 /\ flow_open = TRUE
    /\ n_events = 0 /\ n_calls = 0 /\ n_ticks = 0
    /\ last = [op |-> "new", cf |-> None, num |-> 0,
               pre_speed |-> INFINITY, pre_tcf |-> None,
               pre_anchor |-> NoAnchor, pre_ratio |-> 0]

\* a call of update_speed_limit(throttle)
UpdateStep(throttle) ==
    /\ pc = "update"
    /\ checker' = update_speed_limit(checker, throttle)
    /\ last' = Step("update", None, throttle)
    /\ UNCHANGED <<enabled_flag, tx, facade, pc, w_enabled, spare_ticks, deadline,
                   now, flow_open, script, n_events, n_calls, write_rate, n_ticks>>

UpdateNext == \E throttle \in Proposals : UpdateStep(throttle)

UpdateSpec == UpdateInit /\ [][UpdateNext]_vars

\* C10: a proposed speed above MAX_THROTTLE_SPEED (+inf too) makes the limiter
\* unlimited and clears the throttle CF and the target-flow anchor; a proposed
\* speed of at most MAX_THROTTLE_SPEED leaves the throttle CF and the anchor
\* as they were.
C10_ReleaseAboveMax ==
    last.op = "update" =>
        IF FLt(MAX_THROTTLE_SPEED, last.num)
        THEN /\ speed_limit = INFINITY
             /\ throttle_cf = None
             /\ checker.num_l0_for_last_update_target_flow = NoAnchor
        ELSE /\ throttle_cf = last.pre_tcf
             /\ checker.num_l0_for_last_update_target_flow = last.pre_anchor

\* a proposal above MAX_THROTTLE_SPEED released a throttled checker
C10_Witness ==
    /\ last.op = "update" /\ FLt(MAX_THROTTLE_SPEED, last.num)
    /\ last.pre_speed # INFINITY /\ last.pre_tcf # None /\ last.pre_anchor # NoAnchor
    /\ speed_limit = INFINITY /\ throttle_cf = None

\* ------------------------------------------------------------ on_l0_incr alone
\* seconds between two flush-flow samples: the shortest whole-second window
\* that is longer than 5 s
FlushPeriod == 6

\* bound: the calls of on_l0_incr in a run
MaxIncrSteps == 2

\* the flush flows of the runs, in bytes per second
LowFlow == 1000000
HighFlow == 3000000

\* the production windows after highs samples HighFlow and then lows samples
\* LowFlow, observed by on_l0_incr every FlushPeriod seconds: the last cap
\* samples in insertion order (none is older than 300 s, so observe evicts
\* by capacity only) and their sum
ProductionWindow(cap, highs, lows) ==
    LET n == highs + lows
        first == IF n > cap THEN n - cap + 1 ELSE 1
        recs == [i \in 1..(n - first + 1) |->
                    [v |-> IF i + first - 1 <= highs THEN HighFlow ELSE LowFlow,
                     t |-> FlushPeriod * (i + first - 1)]]
    IN [records |-> recs, total |-> SumRange(recs, 1, Len(recs))]

\* a checker throttled for "default" with the target flow set, after highs +
\* lows flushes; the recorder's latest write rate is w
IncrInit ==
    /\ \E highs \in {0, 1, 11}, lows \in {0, 3, 9},
          target \in {1250000, 1500000, 4000000},
          speed \in {10000000, 200000000},
          w \in {5000000, 10000000, 200000000} :
          /\ now = FlushPeriod * (highs + lows)
          /\ checker =
               [NewFlowChecker(0) EXCEPT
                  !.throttle_cf = "default",
                  !.num_l0_for_last_update_target_flow = 25,
                  !.l0_target_flow = target,
                  !.limiter.speed_limit = speed,
                  !.write_flow_recorder = observe(EmptySmoother, CAP_WRITE_FLOW, w, now),
                  !.last_record_time = now,
                  !.cf_checkers["default"] =
                      [DefaultCFFlowChecker(0) EXCEPT
                          !.on_start_l0_files = FALSE,
                          !.last_num_l0_files = 25,
                          !.last_num_l0_files_from_flush = 25,
                          !.long_term_num_l0_files =
                              observe(observe(EmptySmoother, CAP_NUM_L0, 3, 0),
                                      CAP_NUM_L0, 25, 0),
                          !.last_flush_bytes_time = now,
                          !.last_l0_bytes_time = now,
                          !.short_term_l0_production_flow =
                              ProductionWindow(CAP_SHORT_PRODUCTION, highs, lows),
                          !.long_term_l0_production_flow =
                              ProductionWindow(CAP_LONG_PRODUCTION, highs, lows)]]
    /\ script = "idle" /\ write_rate = 0
    /\ enabled_flag = TRUE /\ tx = <<>> /\ facade = "alive"
    /\ pc = "incr" /\ w_enabled = TRUE
    /\ spare_ticks = 0 /\ deadline = 0 /\ flow_open = TRUE
    /\ n_events = 0 /\ n_calls = 0 /\ n_ticks = 0
    /\ last = [op |-> "new", cf |-> None, num |-> 0,
               pre_speed |-> INFINITY, pre_tcf |-> None,
               pre_anchor |-> NoAnchor, pre_ratio |-> 0]

\* on_l0_incr(cf, flush_bytes) with num_l0 L0 files, gap seconds after the last
\* call
IncrStep(cf, gap, num_l0, flush_bytes, overflow_checks) ==
    /\ pc = "incr"
    /\ n_events < MaxIncrSteps
    /\ now' = now + gap
    /\ checker' = on_l0_incr(checker, cf, flush_bytes, num_l0, now',
                             overflow_checks)
    /\ n_events' = n_events + 1
    /\ last' = Step("Flush", cf, num_l0)
    /\ UNCHANGED <<enabled_flag, tx, facade, pc, w_enabled, spare_ticks, deadline,
                   flow_open, script, n_calls, write_rate, n_ticks>>

\* the calls of a run: flushes of the throttle CF "default" with 25 L0 files
\* every FlushPeriod seconds, one of them after 5 s only, and flushes of
\* "write" that keep its start-up latch (25 files) or clear it (3 files)
IncrNext ==
    \/ \E flush_bytes \in {FlushPeriod * LowFlow, FlushPeriod * HighFlow},
          overflow_checks \in BOOLEAN :
           IncrStep("default", FlushPeriod, 25, flush_bytes, overflow_checks)
    \/ IncrStep("default", 5, 25, FlushPeriod * HighFlow, TRUE)
    \/ \E num_l0 \in {3, 25} :
           IncrStep("write", FlushPeriod, num_l0, FlushPeriod * HighFlow, TRUE)

IncrSpec == IncrInit /\ [][IncrNext]_vars

ShortProduction(c) == c.cf_checkers["default"].short_term_l0_production_flow

LongProduction(c) == c.cf_checkers["default"].long_term_l0_production_flow

\* the step is an on_l0_incr of the throttle CF with a target flow set, the
\* short-term production average the same amount below the target before and
\* after the new sample, and the recorded write rate above 0.95 * speed
SteadyDeficitStep ==
    /\ pc = "incr" /\ last'.op = "Flush"
    /\ last'.cf = throttle_cf
    /\ FlushWindowOver(checker.cf_checkers[last'.cf], now')
    /\ speed_limit # INFINITY
    /\ checker.num_l0_for_last_update_target_flow # NoAnchor
    /\ ShortProduction(checker).records # <<>>
    /\ ShortProduction(checker').total * Len(ShortProduction(checker).records)
         = ShortProduction(checker).total * Len(ShortProduction(checker').records)
    /\ get_avg(ShortProduction(checker')) < checker.l0_target_flow
    /\ MulDiv(speed_limit, 19, 20) < get_recent(checker.write_flow_recorder)

\* the Down test of on_l0_incr on the windows with the new sample
DownFires ==
    /\ get_avg(LongProduction(checker')) > checker.l0_target_flow
    /\ get_recent(ShortProduction(checker')) > checker.l0_target_flow

MaxFeedEvents == 60

\* log2 of the pending bytes half way between the soft and the hard limit
HalfWay == 35

\* the runs: every Compaction event of "default" reports 2^35 pending bytes,
\* from the fresh controller on ("feed") or after one event that reported less
\* ("feed_after_20", "feed_after_25", "feed_after_31")
Leads ==
    [feed |-> <<>>, feed_after_20 |-> <<20>>, feed_after_25 |-> <<25>>,
     feed_after_31 |-> <<31>>]

Lead == Leads[script]

FeedInit ==
    /\ script \in DOMAIN Leads
    /\ checker = NewFlowChecker(0)
    /\ write_rate = 0
    /\ enabled_flag = TRUE /\ tx = <<>> /\ facade = "alive"
    /\ pc = "feed" /\ w_enabled = TRUE
    /\ spare_ticks = 0 /\ deadline = 0 /\ now = 0 /\ flow_open = TRUE
    /\ n_events = 0 /\ n_calls = 0 /\ n_ticks = 0
    /\ last = [op |-> "new", cf |-> None, num |-> 0,
               pre_speed |-> INFINITY, pre_tcf |-> None,
               pre_anchor |-> NoAnchor, pre_ratio |-> 0]

\* the handler of Compaction("default"), one second after the last event
FeedStep ==
    /\ pc = "feed"
    /\ n_events < Len(Lead) + MaxFeedEvents
    /\ now' = now + 1
    /\ LET num == IF n_events < Len(Lead) THEN Lead[n_events + 1] ELSE HalfWay
       IN /\ checker' = on_pending_compaction_bytes_change(checker, "default",
                                                           num, now')
          /\ last' = Step("Compaction", "default", num)
    /\ n_events' = n_events + 1
    /\ UNCHANGED <<enabled_flag, tx, facade, pc, w_enabled, spare_ticks, deadline,
                   flow_open, script, n_calls, write_rate, n_ticks>>

FeedNext == FeedStep

FeedSpec == FeedInit /\ [][FeedNext]_vars

\* the Compaction events of the run that reported 2^35
HalfWayEvents == n_events - Len(Lead)


\* the ratio is within 5% of RATIO_SCALE_FACTOR of 0.5 * RATIO_SCALE_FACTOR
AboutHalf ==
    /\ RATIO_SCALE_FACTOR \div 2 - RATIO_SCALE_FACTOR \div 20 <= discard_ratio
    /\ discard_ratio <= RATIO_SCALE_FACTOR \div 2 + RATIO_SCALE_FACTOR \div 20

SpikeStands ==
    /\ throttle_cf # None
    /\ checker.cf_checkers[throttle_cf].last_num_l0_files > l0_files_threshold

\* a timeout of the enabled worker while the limiter is throttled for a CF
ThrottledTimeout ==
    /\ pc = "recv" /\ last'.op = "Timeout"
    /\ speed_limit # INFINITY /\ throttle_cf # None

\* the timeout is the tenth in a row: the one that calls tick_l0
TenthTimeout == spare_ticks + 1 = SPARE_TICKS_THRESHOLD

\* C13 as stated: when throttling was initiated by an L0 spike and the events
\* cease, the tenth timeout in a row raises the limiter speed by 20%.
C13_IdleRaisesAsStated ==
    [][(ThrottledTimeout /\ SpikeStands /\ TenthTimeout)
          => speed_limit' = TickUp(speed_limit)]_vars

\* C13, amended: while the throttle CF's L0 count stands above the threshold,
\* as it does after an L0 spike when the events cease, no timeout changes the
\* limiter speed or the throttle CF, the tenth in a row included; with the
\* count at or below the threshold only the tenth timeout in a row may change
\* the speed, to what update_speed_limit makes of 1.2 * speed.
C13_IdleKeepsSpeedWhileSpikeStands ==
    [][ThrottledTimeout
          => IF SpikeStands \/ ~TenthTimeout
             THEN speed_limit' = speed_limit /\ throttle_cf' = throttle_cf
             ELSE speed_limit' \in
                      {speed_limit,
                       update_speed_limit(checker, TickUp(speed_limit))
                           .limiter.speed_limit}]_vars

\* ten timeouts in a row went by with the spike standing: tick_l0 ran and the
\* speed is the one of the initiation
C13_Witness ==
    /\ last.op = "Timeout" /\ spare_ticks = 0 /\ n_ticks >= SPARE_TICKS_THRESHOLD
    /\ SpikeStands
    /\ speed_limit # INFINITY /\ last.pre_speed = speed_limit


\* ------------------------------------------------------------ ratio below the soft limit
\* the step was a Compaction event of last.cf that passed the start-up check
\* and the multi-CF guard
CompactionPassedGates ==
    /\ last.op = "Compaction"
    /\ ~checker.cf_checkers[last.cf].on_start_pending_bytes
    /\ ~SomeCfHasMore(checker, "long_term_pending_bytes", last.num)

\* C14: a Compaction(cf) event that passes the start-up check and the
\* multi-CF guard with cf's average log2 pending bytes below log2(soft limit)
\* stores the discard ratio 0, whatever the ratio was before.
C14_BelowSoftStoresZero ==
    (CompactionPassedGates
       /\ PendingAvgBelowSoft(checker.cf_checkers[last.cf].long_term_pending_bytes))
      => discard_ratio = 0

\* such an event found a nonzero ratio and stored 0
C14_Witness ==
    /\ CompactionPassedGates
    /\ PendingAvgBelowSoft(checker.cf_checkers[last.cf].long_term_pending_bytes)
    /\ last.pre_ratio # 0
    /\ discard_ratio = 0


\* ------------------------------------------------------------ enable
\* the worker waits in disabled mode for an engine event: flow_info_receiver.recv()
WorkerWaitsDisabled == pc = "recv" /\ ~w_enabled /\ flow_open

\* C15: on a controller built by new() every enable(b) completes: no send has
\* failed, and while the worker waits in disabled mode for an engine event the
\* caller's next enable call can complete.
C15_EnableCompletes ==
    /\ facade # "panicked"
    /\ (facade = "alive" /\ n_calls < S.max_calls /\ WorkerWaitsDisabled)
          => ENABLED Enable(TRUE)


\* ------------------------------------------------------------ should_drop alone
\* bound: the calls of should_drop in a run
MaxDropCalls == 2

\* the ratios the pending-bytes handler stores when one CF reports 2^35, 2^60,
\* 2^35, 2^60 pending bytes
StoredRatios == {0, 100000, 5393333, 10235999}

\* the draws of the runs
Draws == {0, 99999, 100000, 5393332, 5393333, 9999999, 10235998}

\* rng.gen_ratio(numerator, denominator) for numerator <= denominator, with the
\* draw of the generator scaled to [0, denominator)
gen_ratio(draw, numerator, denominator) == draw < numerator

DropInit ==
    /\ \E r \in StoredRatios, speed \in {INFINITY, MIN_THROTTLE_SPEED, 10000000} :
          checker = [NewFlowChecker(0) EXCEPT !.discard_ratio = r,
                                              !.limiter.speed_limit = speed]
    /\ script = "pending" /\ write_rate = 0
    /\ enabled_flag = TRUE /\ tx = <<>> /\ facade = "alive"
    /\ pc = "drop" /\ w_enabled = TRUE
    /\ spare_ticks = 0 /\ deadline = 0 /\ now = 0 /\ flow_open = TRUE
    /\ n_events = 0 /\ n_calls = 0 /\ n_ticks = 0
    /\ last = [op |-> "new", cf |-> None, num |-> 0,
               pre_speed |-> INFINITY, pre_tcf |-> None,
               pre_anchor |-> NoAnchor, pre_ratio |-> 0]

\* a call of should_drop() whose generator draws `draw`: last.op tells what it
\* returned ("dropped" for true, "kept" for false), or that gen_ratio panicked
DropStep(draw) ==
    /\ pc = "drop" /\ facade = "alive"
    /\ n_calls < MaxDropCalls
    /\ draw < RATIO_SCALE_FACTOR
    /\ n_calls' = n_calls + 1
    /\ IF discard_ratio > RATIO_SCALE_FACTOR
       THEN /\ facade' = "faulted"
            /\ last' = Step("gen_ratio panicked", None, draw)
       ELSE /\ facade' = facade
            /\ last' = Step(IF gen_ratio(draw, discard_ratio, RATIO_SCALE_FACTOR)
                            THEN "dropped" ELSE "kept", None, draw)
    /\ UNCHANGED <<checker, enabled_flag, tx, pc, w_enabled, spare_ticks, deadline,
                   now, flow_open, script, n_events, write_rate, n_ticks>>

DropNext == \E draw \in Draws : DropStep(draw)

DropSpec == DropInit /\ [][DropNext]_vars

\* C16: every call of should_drop returns, true exactly when its draw in
\* [0, RATIO_SCALE_FACTOR) is below the loaded ratio (never for the ratio 0),
\* and leaves the ratio and the limiter as they were.
C16_ShouldDropAsStated ==
    (pc = "drop" /\ last.op # "new") =>
        /\ last.op \in {"dropped", "kept"}
        /\ last.op = "dropped" <=> last.num < last.pre_ratio
        /\ discard_ratio = last.pre_ratio
        /\ speed_limit = last.pre_speed


\* ------------------------------------------------------------ a Smoother alone
\* the capacity of the Smoothers of tests::test_smoother
TestCap == 5

\* bound: the observe calls of a run with free samples
MaxObserves == 6

\* the runs: the two sample sequences of tests::test_smoother (a
\* Smoother<u64, 5> and a Smoother<f64, 5>, observed without delay), and a
\* Smoother<f64, 5> that observes the samples of FreeSamples, each one at
\* once or 301 s after the one before
Samples ==
    [test_u64 |-> <<1, 6, 2, 3, 4, 5, 0>>,
     test_f64 |-> <<1, 6, 2, 3, 4, 5, 9>>,
     free |-> <<>>]

\* log2 of 0, 2 and 8 pending bytes
FreeSamples == {NEG_INF, 1, 3}

SmootherInit ==
    /\ script \in DOMAIN Samples
    /\ checker = EmptySmoother
    /\ write_rate = 0
    /\ enabled_flag = TRUE /\ tx = <<>> /\ facade = "alive"
    /\ pc = "smoother" /\ w_enabled = TRUE
    /\ spare_ticks = 0 /\ deadline = 0 /\ now = 0 /\ flow_open = TRUE
    /\ n_events = 0 /\ n_calls = 0 /\ n_ticks = 0
    /\ last = [op |-> "new", num |-> 0, pre |-> EmptySmoother]

\* smoother.observe(record), gap seconds after the call before
Observe(record, gap) ==
    /\ pc = "smoother"
    /\ IF script = "free"
       THEN n_events < MaxObserves /\ record \in FreeSamples
       ELSE /\ n_events < Len(Samples[script])
            /\ record = Samples[script][n_events + 1]
            /\ gap = 0
    /\ now' = now + gap
    /\ checker' = observe(checker, TestCap, record, now')
    /\ n_events' = n_events + 1
    /\ last' = [op |-> "observe", num |-> record, pre |-> checker]
    /\ UNCHANGED <<enabled_flag, tx, facade, pc, w_enabled, spare_ticks, deadline,
                   flow_open, script, n_calls, write_rate, n_ticks>>

SmootherNext ==
    \E record \in FreeSamples \cup 0..9, gap \in {0, 301} : Observe(record, gap)

SmootherSpec == SmootherInit /\ [][SmootherNext]_vars

\* the samples of the records recs, in order
Values(recs) == [i \in DOMAIN recs |-> recs[i].v]

\* the window holds the youngest records of the window before the observe and
\* the new sample, in the order of their insertion
InInsertionOrder ==
    LET all == Append(Values(last.pre.records), last.num)
        len == Len(checker.records)
    IN /\ len <= Len(all)
       /\ Values(checker.records) = SubSeq(all, Len(all) - len + 1, Len(all))

\* C17: after every observe the window holds at most CAP records in
\* insertion order, total is the sum of the samples in the window, and
\* get_avg() is total / len (0 for the empty window).
C17_TotalIsSum ==
    (pc = "smoother" /\ last.op = "observe") =>
        /\ Len(checker.records) <= TestCap
        /\ InInsertionOrder
        /\ checker.total = SumRange(checker.records, 1, Len(checker.records))
        /\ get_avg(checker)
             = IF checker.records = <<>> THEN 0
               ELSE checker.total \div Len(checker.records)


\* the front record of the window is older than 300 s
FrontIsStale ==
    /\ checker.records # <<>>
    /\ now - Head(checker.records).t > SMOOTHER_STALE_RECORD_THRESHOLD

\* C18: when observe returns, the window has at most 2 records or its front
\* record is not older than 300 s, and the stale eviction has not taken the
\* window below 2 records: it holds 2 at least when it held a record before.
C18_StaleEviction ==
    (pc = "smoother" /\ last.op = "observe") =>
        /\ Len(checker.records) <= 2 \/ ~FrontIsStale
        /\ last.pre.records # <<>> => Len(checker.records) >= 2

\* an observe evicted stale records down to 2 and stopped at a stale front
C18_Witness ==
    /\ pc = "smoother" /\ last.op = "observe"
    /\ Len(last.pre.records) >= 3
    /\ Len(checker.records) = 2
    /\ FrontIsStale


\* the sum of the samples of recs at the indices (from 0) of `half`
RECURSIVE SumOver(_, _)
SumOver(recs, half) ==
    IF half = {} THEN 0
    ELSE LET i == CHOOSE i \in half : TRUE
         IN FAdd(recs[i + 1].v, SumOver(recs, half \ {i}))

\* the halves of a window of len records: the indices i with i < len / 2 and
\* those with len - i - 1 < len / 2
LeftHalf(len) == {i \in 0..(len - 1) : i < len \div 2}

RightHalf(len) == {i \in 0..(len - 1) : len - i - 1 < len \div 2}

\* C19: trend() is Increasing iff the sum of the right half is above the sum
\* of the left half + 2, Decreasing iff the sum of the left half is above the
\* sum of the right half + 2, else NoTrend (also for windows of at most one
\* record); the middle sample of an odd window is in neither half.  Observing
\* 1,6,2,3,4,5,0 into a window of 5 gives NoTrend and 1,6,2,3,4,5,9 gives
\* Increasing.
C19_TrendByHalves ==
    pc = "smoother" =>
        LET len == Len(checker.records)
            sum_left == SumOver(checker.records, LeftHalf(len))
            sum_right == SumOver(checker.records, RightHalf(len))
        IN /\ LeftHalf(len) \cap RightHalf(len) = {}
           /\ Cardinality(LeftHalf(len)) = Cardinality(RightHalf(len))
           /\ len % 2 = 1 => len \div 2 \notin LeftHalf(len) \cup RightHalf(len)
           /\ trend(checker) = "Increasing"
                <=> len > 1 /\ FLt(FAdd(sum_left, 2), sum_right)
           /\ trend(checker) = "Decreasing"
                <=> len > 1 /\ FLt(FAdd(sum_right, 2), sum_left)
           /\ trend(checker) \in {"Increasing", "Decreasing", "NoTrend"}
           /\ (script = "test_u64" /\ n_events = 7) => trend(checker) = "NoTrend"
           /\ (script = "test_f64" /\ n_events = 7) => trend(checker) = "Increasing"

\* the window of the second example: 2, 3, 4, 5, 9 is Increasing
C19_Witness ==
    /\ pc = "smoother" /\ n_events = 7
    /\ script = "test_f64"
    /\ Values(checker.records) = <<2, 3, 4, 5, 9>>
    /\ trend(checker) = "Increasing"


\* v is the element at index k (from 0) of the samples of recs sorted
\* ascending: at most k samples are below v and more than k are not above it
IsSortedElement(recs, k, v) ==
    /\ \E i \in DOMAIN recs : recs[i].v = v
    /\ Cardinality({i \in DOMAIN recs : FLt(recs[i].v, v)}) <= k
    /\ Cardinality({i \in DOMAIN recs : ~FLt(v, recs[i].v)}) > k

\* C20: get_percentile_90() is the element at index floor((len - 1) * 0.90)
\* of the samples of the window sorted ascending, and 0 for the empty window;
\* for the window 2, 3, 4, 5, 0 it is 4.  (It is a function of the window:
\* records and total are not assigned.)
C20_Percentile90 ==
    pc = "smoother" =>
        LET len == Len(checker.records)
        IN /\ len = 0 => get_percentile_90(checker) = 0
           /\ len > 0 => IsSortedElement(checker.records, ((len - 1) * 9) \div 10,
                                         get_percentile_90(checker))
           /\ (script = "test_u64" /\ n_events = 7)
                 => get_percentile_90(checker) = 4

\* the window of the example: 2, 3, 4, 5, 0 has the 90th percentile 4
C20_Witness ==
    /\ pc = "smoother" /\ script = "test_u64" /\ n_events = 7
    /\ Values(checker.records) = <<2, 3, 4, 5, 0>>
    /\ get_percentile_90(checker) = 4


\* ------------------------------------------------------------ throttle CF
\* C21: whenever the limiter speed is finite, throttle_cf names a CF, and the
\* worker never faults in tick_l0, also when the throttling was initiated by
\* on_memtable_decrs.
C21_ThrottledNamesCf ==
    /\ speed_limit # INFINITY => throttle_cf # None
    /\ pc # "panicked"


\* C22: whenever the limiter is unlimited, throttle_cf is None and the
\* target-flow anchor is None, in every reachable state, also after a Disable
\* and an Enable.
C22_UnlimitedHasNoCf ==
    speed_limit = INFINITY =>
        /\ throttle_cf = None
        /\ checker.num_l0_for_last_update_target_flow = NoAnchor


\* ------------------------------------------------------------ closed event channel
\* a receive of the enabled worker after the engine closed the event channel
ReceiveAfterDisconnect ==
    /\ pc = "recv" /\ w_enabled /\ ~flow_open
    /\ pc' # "recv"

\* C23: after the event channel is closed while the worker is enabled, the
\* worker treats every further receive as a timeout: spare_ticks advances
\* and every tenth one calls tick_l0 and resets it.
C23_DisconnectedIsTimeout ==
    [][ReceiveAfterDisconnect
          => /\ last'.op = "Timeout"
             /\ spare_ticks' = IF TenthTimeout THEN 0 ELSE spare_ticks + 1]_vars


\* ------------------------------------------------------------ disabled worker
\* the checker without the bytes the callers consumed
Statistics(c) == [c EXCEPT !.limiter.total_bytes_consumed = 0]

\* C24: while the worker is disabled and receives, no step changes the
\* limiter speed, the discard ratio, the throttle CF, the target flow or a
\* per-CF statistic, and none is a timeout tick (no tick_l0, no
\* update_statistics, no spare tick).
C24_DisabledDiscards ==
    [][(pc = "recv" /\ ~w_enabled)
          => /\ Statistics(checker') = Statistics(checker)
             /\ n_ticks' = n_ticks
             /\ spare_ticks' = spare_ticks
             /\ deadline' = deadline]_vars

\* the disabled worker received an engine event and dropped it
C24_Witness ==
    /\ last.op = "Drain" /\ ~w_enabled /\ pc = "poll"
    /\ n_events > 0


\* ------------------------------------------------------------ idleness before tick_l0
\* the time of the latest L0 or L0Intra event of cf that the worker handled
LatestL0Event(cf) ==
    LET recs == checker.cf_checkers[cf].long_term_num_l0_files.records
    IN recs[Len(recs)].t

\* the step was the tenth timeout in a row, which called tick_l0 for the
\* throttle CF of that moment
TickL0Ran ==
    /\ last.op = "Timeout" /\ spare_ticks = 0 /\ n_ticks > 0
    /\ last.pre_tcf # None
    /\ checker.cf_checkers[last.pre_tcf].long_term_num_l0_files.records # <<>>

\* C25: whenever tick_l0 is invoked, at least 10 timeouts have gone by since
\* the last event of the CF that is the throttle CF at that moment: its latest
\* L0 event is 9 timeout periods old at least.
C25_TickAfterIdleness ==
    TickL0Ran =>
        now - LatestL0Event(last.pre_tcf)
            >= (SPARE_TICKS_THRESHOLD - 1) * SPARE_TICK_DURATION


\* ------------------------------------------------------------ Flush events and memtables
\* bound: the Flush events with free memtable counts in a run
MaxMemSteps == 2

\* the events that come first in a run, all of CF "default": Flush events with
\* num immutable memtables (and 3 L0 files) and L0 events with num L0 files
MemLeads ==
    LET F(n) == [kind |-> "Flush", num |-> n]
        L(n) == [kind |-> "L0", num |-> n]
    IN [fresh |-> <<>>,
        after_memtables |-> <<F(2), F(9), F(9)>>,
        after_l0 |-> <<L(3), L(25)>>,
        after_both |-> <<F(2), F(9), F(9), F(2), L(3), L(25)>>]

\* a worker that has recorded the foreground write rate write_rate once
MemInit ==
    /\ script \in DOMAIN MemLeads
    /\ write_rate \in {0, 1000, 10000000, 300000000}
    /\ checker = [NewFlowChecker(0) EXCEPT
                     !.write_flow_recorder =
                         IF write_rate = 0 THEN EmptySmoother
                         ELSE observe(EmptySmoother, CAP_WRITE_FLOW, write_rate, 0)]
    /\ enabled_flag = TRUE /\ tx = <<>> /\ facade = "alive"
    /\ pc = "memtable" /\ w_enabled = TRUE
    /\ spare_ticks = 0 /\ deadline = 0 /\ now = 0 /\ flow_open = TRUE
    /\ n_events = 0 /\ n_calls = 0 /\ n_ticks = 0
    /\ last = [op |-> "new", cf |-> None, num |-> 0,
               pre_speed |-> INFINITY, pre_tcf |-> None,
               pre_anchor |-> NoAnchor, pre_ratio |-> 0]

\* the handlers of the next event: the next one of the lead, or after the lead
\* a Flush event of cf with num_mem immutable memtables.  last.num is the
\* memtable count of a Flush event.
MemStep(cf, num_mem) ==
    /\ pc = "memtable"
    /\ n_events < Len(MemLeads[script]) + MaxMemSteps
    /\ LET in_lead == n_events < Len(MemLeads[script])
           e == IF in_lead THEN MemLeads[script][n_events + 1]
                ELSE [kind |-> "Flush", num |-> num_mem]
       IN /\ in_lead => cf = "default" /\ num_mem = 2
          /\ checker' = IF e.kind = "L0"
                        THEN on_l0_decr(checker, "default", L0Bytes, e.num, now)
                        ELSE FlushHandlers(checker, cf, 6000000, e.num, 3, TRUE)
          /\ last' = Step(e.kind, cf, e.num)
    /\ n_events' = n_events + 1
    /\ UNCHANGED <<enabled_flag, tx, facade, pc, w_enabled, spare_ticks, deadline,
                   now, flow_open, script, n_calls, write_rate, n_ticks>>

MemNext == \E cf \in CFS, num_mem \in {2, 6, 9} : MemStep(cf, num_mem)

MemSpec == MemInit /\ [][MemNext]_vars


\* the last step was a Flush event whose on_memtable_decrs went past the
\* start-up gate and the multi-CF guard
MemtablePastGates ==
    /\ last.op = "Flush"
    /\ ~checker.cf_checkers[last.cf].on_start_memtable
    /\ ~SomeCfHasMore(checker, "last_num_memtables", last.num)

\* should_throttle of on_memtable_decrs, with the event's count observed
MemtableShouldThrottle ==
    avg_gt(checker.cf_checkers[last.cf].last_num_memtables, memtables_threshold, 1)

C27_MemtableReleaseOwnThrottleOnly ==
    LET ck == checker.cf_checkers[last.cf]
    IN (/\ MemtablePastGates /\ last.pre_speed # INFINITY
        /\ \/ ~MemtableShouldThrottle
           \/ get_recent(ck.last_num_memtables) < memtables_threshold)
       => /\ ck.memtable_debt = 0
          /\ speed_limit = IF ck.init_speed THEN INFINITY ELSE last.pre_speed
          /\ last.pre_tcf # None => speed_limit # INFINITY


\* C28: a Compaction event of cf whose log2 sample is smaller than the most
\* recent sample of some CF leaves the discard ratio as it was: the ratio is
\* written only when no CF has a larger most recent sample.
C28_OnlyWorstCfWrites ==
    (/\ last.op = "Compaction"
     /\ \E other \in CFS :
            LET w == checker.cf_checkers[other].long_term_pending_bytes
            IN w.records # <<>> /\ FLt(last.num, get_recent(w)))
    => discard_ratio = last.pre_ratio

\* a Compaction event past the start-up check, with a smaller sample than
\* another CF's latest, left a nonzero ratio that its own window would have
\* changed
C28_Witness ==
    /\ last.op = "Compaction"
    /\ SomeCfHasMore(checker, "long_term_pending_bytes", last.num)
    /\ ~checker.cf_checkers[last.cf].on_start_pending_bytes
    /\ last.pre_ratio # 0 /\ discard_ratio = last.pre_ratio
    /\ NewDiscardRatio(discard_ratio,
                       checker.cf_checkers[last.cf].long_term_pending_bytes)
           # discard_ratio


\* the ratio of lines 670-681 scaled by RATIO_SCALE_FACTOR, for a window s with
\* avg >= soft: 0.6 * r_old + 0.4 * r_new when r_old # 0, 0.01 when r_old = 0
\* and r_new > 0.01, else r_new, as the exact rational whole + part / unit
ScaledRatio(old_ratio, s) ==
    LET k == Len(s.records)
        n == s.total - soft_log2 * k
        d == (hard_log2 - soft_log2) * k
        ema == ((3 * old_ratio) % 5) * d + 5 * (((4000000 % d) * n) % d)
    IN IF old_ratio # 0
       THEN [whole |-> (3 * old_ratio) \div 5 + MulDiv(4000000, n, d)
                       + ema \div (5 * d),
             part |-> ema % (5 * d), unit |-> 5 * d]
       ELSE IF 100 * n > d
       THEN [whole |-> RATIO_SCALE_FACTOR \div 100, part |-> 0, unit |-> 1]
       ELSE [whole |-> MulDiv(RATIO_SCALE_FACTOR, n, d),
             part |-> ((RATIO_SCALE_FACTOR % d) * n) % d, unit |-> d]

\* the last step was a Compaction event that stored a ratio computed with
\* avg >= soft
RatioComputed ==
    LET ck == checker.cf_checkers[last.cf]
    IN /\ last.op = "Compaction"
       /\ ~ck.on_start_pending_bytes
       /\ ~SomeCfHasMore(checker, "long_term_pending_bytes", last.num)
       /\ IsNum(ck.long_term_pending_bytes.total)
       /\ ~PendingAvgBelowSoft(ck.long_term_pending_bytes)

\* C29 as stated: the stored value is the scaled ratio rounded to the nearest
\* integer, and from ratio 0 one event stores at most 0.01 * RATIO_SCALE_FACTOR.
C29_StoredRounded ==
    RatioComputed
    => LET r == ScaledRatio(last.pre_ratio,
                            checker.cf_checkers[last.cf].long_term_pending_bytes)
       IN /\ discard_ratio = r.whole + (IF 2 * r.part >= r.unit THEN 1 ELSE 0)
          /\ last.pre_ratio = 0 => discard_ratio <= RATIO_SCALE_FACTOR \div 100

\* C29, amended: the stored value is the scaled ratio truncated to an integer,
\* and from ratio 0 one event stores at most 0.01 * RATIO_SCALE_FACTOR.
C29_StoredTruncated ==
    RatioComputed
    => LET r == ScaledRatio(last.pre_ratio,
                            checker.cf_checkers[last.cf].long_term_pending_bytes)
       IN /\ discard_ratio = r.whole
          /\ last.pre_ratio = 0 => discard_ratio <= RATIO_SCALE_FACTOR \div 100

\* an EMA step stored a ratio whose discarded fraction was a half or more
C29_Witness ==
    /\ RatioComputed /\ last.pre_ratio # 0
    /\ LET r == ScaledRatio(last.pre_ratio,
                            checker.cf_checkers[last.cf].long_term_pending_bytes)
       IN 2 * r.part >= r.unit /\ discard_ratio = r.whole


\* ------------------------------------------------------------ L0 events while throttled
\* bound: the L0 events with free CF and L0 count in a run
MaxDecrSteps == 2

\* the events of CF "default" that come first in a run: an L0 event with 3
\* files, FlushPeriod seconds later a Flush event of num bytes (one sample of
\* production and of consumption flow), then an L0 event with 25 files that
\* initiates the throttling
DecrLeads ==
    LET F(n) == [kind |-> "Flush", num |-> n, gap |-> FlushPeriod]
        L(n) == [kind |-> "L0", num |-> n, gap |-> 0]
    IN [low_production |-> <<L(3), F(3000000), L(25)>>,
        high_production |-> <<L(3), F(6000000), L(25)>>]

\* a worker that has recorded the foreground write rate write_rate once
DecrInit ==
    /\ script \in DOMAIN DecrLeads
    /\ write_rate \in {10000000, 205000000}
    /\ checker = [NewFlowChecker(0) EXCEPT
                     !.write_flow_recorder =
                         observe(EmptySmoother, CAP_WRITE_FLOW, write_rate, 0)]
    /\ enabled_flag = TRUE /\ tx = <<>> /\ facade = "alive"
    /\ pc = "decr" /\ w_enabled = TRUE
    /\ spare_ticks = 0 /\ deadline = 0 /\ now = 0 /\ flow_open = TRUE
    /\ n_events = 0 /\ n_calls = 0 /\ n_ticks = 0
    /\ last = [op |-> "new", cf |-> None, num |-> 0,
               pre_speed |-> INFINITY, pre_tcf |-> None,
               pre_anchor |-> NoAnchor, pre_ratio |-> 0]

\* the handlers of the next event: the next one of the lead, or after the lead
\* an L0 event of cf with num_l0 files
DecrStep(cf, num_l0) ==
    /\ pc = "decr"
    /\ n_events < Len(DecrLeads[script]) + MaxDecrSteps
    /\ LET in_lead == n_events < Len(DecrLeads[script])
           e == IF in_lead THEN DecrLeads[script][n_events + 1]
                ELSE [kind |-> "L0", num |-> num_l0, gap |-> 0]
       IN /\ in_lead => cf = "default" /\ num_l0 = 3
          /\ now' = now + e.gap
          /\ checker' = IF e.kind = "L0"
                        THEN on_l0_decr(checker, cf, L0Bytes, e.num, now')
                        ELSE on_l0_incr(on_memtable_decrs(checker, cf, 2, now'),
                                        cf, e.num, 3, now', TRUE)
          /\ last' = Step(e.kind, cf, e.num)
    /\ n_events' = n_events + 1
    /\ UNCHANGED <<enabled_flag, tx, facade, pc, w_enabled, spare_ticks, deadline,
                   flow_open, script, n_calls, write_rate, n_ticks>>

DecrNext == \E cf \in CFS, num_l0 \in {3, 22, 25, 29, 33} : DecrStep(cf, num_l0)

DecrSpec == DecrInit /\ [][DecrNext]_vars

\* C30: an L0 event of the throttle CF, received while throttled and reporting
\* more than l0_files_threshold files, leaves the speed limit unchanged; with
\* an anchor set, the target flow changes only when the L0 count is above
\* anchor + 3 and the target is above the short-term consumption average, and
\* then the target becomes that average, not higher than before, and the
\* anchor becomes the L0 count.
C30_RefreshDownOnly ==
    [][(/\ last'.op = "L0" /\ n_events' = n_events + 1
        /\ last'.cf = throttle_cf
        /\ speed_limit # INFINITY /\ last'.num > l0_files_threshold)
       => /\ speed_limit' = speed_limit
          /\ checker.num_l0_for_last_update_target_flow # NoAnchor
             => LET cons == get_avg(checker.cf_checkers[throttle_cf]
                                        .short_term_l0_consumption_flow)
                IN IF /\ last'.num > checker.num_l0_for_last_update_target_flow + 3
                      /\ checker.l0_target_flow > cons
                   THEN /\ checker'.l0_target_flow = cons
                        /\ checker'.l0_target_flow <= checker.l0_target_flow
                        /\ checker'.num_l0_for_last_update_target_flow = last'.num
                   ELSE checker'.l0_target_flow = checker.l0_target_flow]_vars

\* an L0 event of the throttle CF moved the anchor from 25 to its count and
\* lowered the target flow from the production average to the consumption
\* average, with the speed unchanged
C30_Witness ==
    /\ pc = "decr" /\ last.op = "L0" /\ last.pre_tcf = last.cf
    /\ last.pre_speed # INFINITY /\ speed_limit = last.pre_speed
    /\ last.pre_anchor = 25 /\ last.num > last.pre_anchor + 3
    /\ checker.num_l0_for_last_update_target_flow = last.num
    /\ checker.l0_target_flow
           = get_avg(checker.cf_checkers[last.cf].short_term_l0_consumption_flow)
    /\ checker.l0_target_flow
           < get_avg(checker.cf_checkers[last.cf].short_term_l0_production_flow)


\* C31: an L0 event that reaches the decision of on_l0_decr while throttled and
\* reports at most l0_files_threshold files holds the speed if the long-term
\* L0 average is at least half the threshold or the flush-time L0 count is at
\* least the threshold; otherwise the speed is multiplied by 1.04, unlimited
\* when the product is above MAX_THROTTLE_SPEED, and the target flow becomes
\* the mean of the consumption average and the target only if that mean is
\* greater.  The target flow never decreases.
C31_ReleaseRaisesGently ==
    [][(/\ last'.op = "L0" /\ n_events' = n_events + 1
        /\ throttle_cf \in {None, last'.cf}
        /\ ~checker'.cf_checkers[last'.cf].on_start_l0_files
        /\ speed_limit # INFINITY /\ last'.num <= l0_files_threshold)
       => LET ck == checker'.cf_checkers[last'.cf]
              up == MulDiv(speed_limit, 26, 25)
              mean == (get_avg(ck.short_term_l0_consumption_flow)
                       + checker.l0_target_flow) \div 2
          IN /\ checker'.l0_target_flow >= checker.l0_target_flow
             /\ IF \/ avg_ge(ck.long_term_num_l0_files, l0_files_threshold, 2)
                   \/ ck.last_num_l0_files_from_flush >= l0_files_threshold
                THEN speed_limit' = speed_limit
                ELSE /\ speed_limit' = IF up > MAX_THROTTLE_SPEED THEN INFINITY
                                       ELSE up
                     /\ checker'.l0_target_flow # checker.l0_target_flow
                        => /\ checker'.l0_target_flow = mean
                           /\ mean > checker.l0_target_flow]_vars

\* an L0 event with few files raised the speed by 4% and the target flow above
\* the production average it was seeded with
C31_Witness ==
    /\ pc = "decr" /\ last.op = "L0" /\ last.num <= l0_files_threshold
    /\ last.pre_speed # INFINITY
    /\ speed_limit = MulDiv(last.pre_speed, 26, 25)
    /\ checker.l0_target_flow
           > get_avg(checker.cf_checkers[last.cf].short_term_l0_production_flow)
    /\ get_avg(checker.cf_checkers[last.cf].short_term_l0_production_flow) > 0


\* C32: on_l0_incr(cf) observes nothing into long_term_num_l0_files, and it
\* leaves the speed limit, the throttle CF and the target flow unchanged when
\* at most 5 s have passed since cf's last_flush_bytes_time, when cf's
\* start-up latch still holds, or when another CF is the throttle CF.
C32_IncrFrame ==
    [][(pc = "incr" /\ last'.op = "Flush")
       => LET cf == last'.cf
          IN /\ \A c \in CFS :
                    checker'.cf_checkers[c].long_term_num_l0_files
                        = checker.cf_checkers[c].long_term_num_l0_files
             /\ (\/ now' - checker.cf_checkers[cf].last_flush_bytes_time <= 5
                 \/ checker'.cf_checkers[cf].on_start_l0_files
                 \/ throttle_cf \notin {None, cf})
                => /\ speed_limit' = speed_limit
                   /\ throttle_cf' = throttle_cf
                   /\ checker'.l0_target_flow = checker.l0_target_flow]_vars

\* a flush of "write", past its start-up latch and with a production sample
\* above the target flow taken, left the speed of the throttle CF "default"
C32_Witness ==
    LET ck == checker.cf_checkers["write"]
    IN /\ pc = "incr" /\ last.op = "Flush" /\ last.cf = "write"
       /\ throttle_cf = "default" /\ ~ck.on_start_l0_files
       /\ ck.last_flush_bytes_time = now
       /\ get_recent(ck.short_term_l0_production_flow) > checker.l0_target_flow
       /\ speed_limit = last.pre_speed /\ speed_limit # INFINITY


\* C33: an on_l0_incr raises the speed limit only if the Down test fails (the
\* long-term production average or the latest sample is not above the target),
\* the short-term production average or the latest sample is below the target,
\* and the latest recorded write rate is above 0.95 * speed; with a write rate
\* of at most 0.95 * speed the speed limit is not raised.
C33_RaisesOnlyUnderPressure ==
    [][(/\ pc = "incr" /\ last'.op = "Flush"
        /\ speed_limit # INFINITY /\ speed_limit' > speed_limit)
       => LET ck == checker'.cf_checkers[last'.cf]
              target == checker.l0_target_flow
          IN /\ ~(/\ get_avg(ck.long_term_l0_production_flow) > target
                  /\ get_recent(ck.short_term_l0_production_flow) > target)
             /\ \/ get_avg(ck.short_term_l0_production_flow) < target
                \/ get_recent(ck.short_term_l0_production_flow) < target
             /\ get_recent(checker.write_flow_recorder)
                    > MulDiv(speed_limit, 19, 20)]_vars

\* an on_l0_incr raised the speed limit with the latest sample below the
\* target and the recorded write rate equal to the speed
C33_Witness ==
    LET ck == checker.cf_checkers[last.cf]
    IN /\ pc = "incr" /\ last.op = "Flush" /\ last.pre_speed # INFINITY
       /\ speed_limit > last.pre_speed
       /\ get_recent(ck.short_term_l0_production_flow) < checker.l0_target_flow
       /\ get_recent(checker.write_flow_recorder) = last.pre_speed


\* C34: the timeout that calls tick_l0 changes neither the speed limit, the
\* throttle CF, the anchor nor the target flow when the limiter is unlimited
\* or the throttle CF's latest L0 count is above l0_files_threshold; with a
\* throttle CF at or below the threshold it keeps the speed if the long-term
\* L0 average or latest long-term count is at least half the threshold or the
\* flush-time count is at least the threshold, and else multiplies it by 1.2,
\* unlimited when the product is above MAX_THROTTLE_SPEED.  The speed is never
\* lowered.
C34_TickL0 ==
    [][(/\ pc = "recv" /\ last'.op = "Timeout" /\ n_ticks' = n_ticks + 1
        /\ TenthTimeout)
       => /\ speed_limit' >= speed_limit
          /\ IF speed_limit = INFINITY \/ SpikeStands
             THEN /\ speed_limit' = speed_limit /\ throttle_cf' = throttle_cf
                  /\ checker'.num_l0_for_last_update_target_flow
                         = checker.num_l0_for_last_update_target_flow
                  /\ checker'.l0_target_flow = checker.l0_target_flow
             ELSE throttle_cf # None
                  => LET ck == checker.cf_checkers[throttle_cf]
                         up == MulDiv(speed_limit, 6, 5)
                     IN IF \/ avg_ge(ck.long_term_num_l0_files, l0_files_threshold, 2)
                           \/ 2 * get_recent(ck.long_term_num_l0_files)
                                  >= l0_files_threshold
                           \/ ck.last_num_l0_files_from_flush >= l0_files_threshold
                        THEN speed_limit' = speed_limit
                        ELSE speed_limit' = IF up > MAX_THROTTLE_SPEED
                                            THEN INFINITY ELSE up]_vars

\* the tenth timeout in a row raised the speed of a throttled limiter by 20%
C34_Witness ==
    /\ last.op = "Timeout" /\ spare_ticks = 0 /\ n_ticks >= SPARE_TICKS_THRESHOLD
    /\ last.pre_tcf # None /\ last.pre_speed # INFINITY
    /\ speed_limit = MulDiv(last.pre_speed, 6, 5)


\* C35: the slope of every short-term production window with at least 2
\* records and a positive time span is the signed value
\* (right sum - left sum) / (len / 2) / (span / 2), in a build with overflow
\* checks as in one without: it is negative when the right-half sum is smaller
\* than the left-half sum, and no on_l0_incr fails on it.
C35_SlopeSigned ==
    /\ ~checker.panicked
    /\ \A cf \in CFS, overflow_checks \in BOOLEAN :
          LET s == checker.cf_checkers[cf].short_term_l0_production_flow
              half == Len(s.records) \div 2
              span == s.records[Len(s.records)].t - s.records[1].t
              sl == slope(s, overflow_checks)
          IN (Len(s.records) >= 2 /\ span > 0)
             => /\ ~sl.panic
                /\ RightSum(s) < LeftSum(s) => sl.v < 0
                /\ RightSum(s) >= LeftSum(s)
                   => sl.v = (2 * (RightSum(s) - LeftSum(s))) \div (half * span)


\* a Compaction event is handled while its CF's start-up latch is set
LatchedCompactionStep ==
    /\ pc = "recv" /\ last'.op = "Compaction" /\ n_events' = n_events + 1
    /\ checker.cf_checkers[last'.cf].on_start_pending_bytes

\* the test of the start-up check on the window with the new sample
LatchTestPasses ==
    \/ FLt(last'.num, soft_log2)
    \/ trend(checker'.cf_checkers[last'.cf].long_term_pending_bytes) = "Increasing"

\* C36 as stated: a Compaction event handled with the latch set, whose sample
\* is not below log2(soft limit) and whose window is not Increasing, clears the
\* latch and leaves the ratio unchanged.
C36_LatchClearedOnReturn ==
    [][(LatchedCompactionStep /\ ~LatchTestPasses)
       => /\ ~checker'.cf_checkers[last'.cf].on_start_pending_bytes
          /\ discard_ratio' = discard_ratio]_vars

\* C36, amended: a Compaction event handled with the latch set clears the
\* latch when its sample is below log2(soft limit) or its window is
\* Increasing, and otherwise leaves the latch set and the ratio unchanged.
C36_LatchKeptOnReturn ==
    [][LatchedCompactionStep
       => IF LatchTestPasses
          THEN ~checker'.cf_checkers[last'.cf].on_start_pending_bytes
          ELSE /\ checker'.cf_checkers[last'.cf].on_start_pending_bytes
               /\ discard_ratio' = discard_ratio]_vars

\* a Compaction event above the soft limit returned at the start-up check of
\* its CF after the other CF's latch had been cleared
C36_Witness ==
    /\ last.op = "Compaction" /\ last.num >= soft_log2
    /\ checker.cf_checkers[last.cf].on_start_pending_bytes
    /\ \E other \in CFS : ~checker.cf_checkers[other].on_start_pending_bytes


\* C37: the command of the last enable(b) call is taken by the worker even if
\* no engine event arrives after it: once enable(true) has set the flag of the
\* facade and queued its command, the worker does not wait in disabled mode for
\* an engine event, the only thing its blocking recv returns on.
C37_EnableReachesWorker ==
    (facade = "alive" /\ enabled_flag /\ tx # <<>>) => ~WorkerWaitsDisabled

============================================================================
